---- MODULE Spec2Model ----
(***************************************************************************)
(* Member handler of roblox-proxy-clustering: the read-through cache with  *)
(* singleflight deduplication and stale-while-revalidate refresh           *)
(* (Handler.readThroughCache, Handler.launchRefresh, Handler.storeWithTTL) *)
(* together with the request dispatch that builds its cache keys.          *)
(*                                                                         *)
(* Strings are sequences of one-character strings, so that key building    *)
(* (prefix + id, key + ":refresh"), trimming and lower-casing are computed *)
(* as the code computes them.                                              *)
(***************************************************************************)
EXTENDS Integers, Sequences, FiniteSets, TLC

(***************************************************************************)
(* Bounds of the model.                                                    *)
(***************************************************************************)
\* number of inbound requests in a behaviour, each served by its own worker
\* goroutine, numbered in the order in which they arrive
NumRequests == 2
\* the wall clock runs from 0 to MaxTime
MaxTime == 3

(***************************************************************************)
(* Configuration (config.Config): the stale-after threshold and the TTL.   *)
(***************************************************************************)
BackgroundRefreshAfter == 1
CacheTTL == 3

(***************************************************************************)
(* Strings.                                                                *)
(***************************************************************************)
Upper == <<"A", "B", "C">>
Lower == <<"a", "b", "c">>
Digits == {"0", "1", "2", "3", "4", "5", "6", "7", "8", "9"}
Spaces == {" ", "\t", "\n", "\r"}

\* strings.ToLower, one character
LowerChar(c) ==
    IF \E i \in 1..Len(Upper) : Upper[i] = c
    THEN Lower[CHOOSE i \in 1..Len(Upper) : Upper[i] = c]
    ELSE c

\* strings.ToLower
ToLower(s) == [i \in 1..Len(s) |-> LowerChar(s[i])]

RECURSIVE TrimLeft(_)
TrimLeft(s) ==
    IF s # <<>> /\ Head(s) \in Spaces THEN TrimLeft(Tail(s)) ELSE s

RECURSIVE TrimRight(_)
TrimRight(s) ==
    IF s # <<>> /\ s[Len(s)] \in Spaces
    THEN TrimRight(SubSeq(s, 1, Len(s) - 1))
    ELSE s

\* strings.TrimSpace
TrimSpace(s) == TrimRight(TrimLeft(s))

\* len(s): the number of bytes of s in UTF-8 ("é" takes two)
ByteLen(s) == Len(s) + Cardinality({i \in 1..Len(s) : s[i] = "é"})

\* isNumeric: non-empty and decimal digits only
isNumeric(v) == v # <<>> /\ \A i \in 1..Len(v) : v[i] \in Digits

(***************************************************************************)
(* Cache keys and dedup identities.                                        *)
(***************************************************************************)
userPrefix == <<"r","o","b","l","o","x",":","u","s","e","r",":">>
searchPrefix == <<"r","o","b","l","o","x",":","s","e","a","r","c","h",":">>
avatarPrefix == <<"r","o","b","l","o","x",":","a","v","a","t","a","r",":">>
refreshSuffix == <<":","r","e","f","r","e","s","h">>

userCacheKey(userID) == userPrefix \o userID
searchCacheKey(query) == searchPrefix \o query

\* variant: avatars are cached under the key of the search for abc
avatarCacheKeyShared(userID) == searchPrefix \o <<"a", "b", "c">>

avatarCacheKey(userID) == avatarPrefix \o userID

\* the singleflight key of a background refresh: key + ":refresh"
RefreshFlight(k) == k \o refreshSuffix

(***************************************************************************)
(* Inbound requests: the userId and search query parameters.               *)
(***************************************************************************)
Requests ==
    { [userId |-> <<"7", "a">>, search |-> <<>>],
      [userId |-> <<>>, search |-> <<"a", "b">>],
      [userId |-> <<>>, search |-> <<" ", "A", "b", "c">>],
      [userId |-> <<>>, search |-> <<"a","b","c",":","r","e","f","r","e","s","h">>],
      [userId |-> <<>>, search |-> <<" ">>] }

\* variant: the search parameter is tested before userId
RouteSearchFirst(req) ==
    IF TrimSpace(req.search) # <<>> THEN "search"
    ELSE IF TrimSpace(req.userId) # <<>> THEN "user"
    ELSE "proxy"

\* ServeHTTP: which handler a request is dispatched to
Route(req) ==
    IF TrimSpace(req.userId) # <<>> THEN "user"
    ELSE IF TrimSpace(req.search) # <<>> THEN "search"
    ELSE "proxy"

\* handleUserLookup / handleSearch: the request is rejected with status 400
Rejected(req) ==
    \/ Route(req) = "user" /\ ~isNumeric(TrimSpace(req.userId))
    \/ Route(req) = "search" /\ ByteLen(TrimSpace(req.search)) < 3

\* the cache key handleUserLookup / handleSearch hand to readThroughCache
KeyOf(req) ==
    IF Route(req) = "user"
    THEN userCacheKey(TrimSpace(req.userId))
    ELSE searchCacheKey(ToLower(TrimSpace(req.search)))

\* the requests that reach readThroughCache
Lookups == {r \in Requests : Route(r) # "proxy" /\ ~Rejected(r)}
CacheKeys == {KeyOf(r) : r \in Lookups}
FlightKeys == CacheKeys \cup {RefreshFlight(k) : k \in CacheKeys}

(***************************************************************************)
(* Processes: one worker goroutine per inbound request, and the refresh     *)
(* goroutine that worker w starts in launchRefresh, RefresherOf(w).         *)
(***************************************************************************)
Workers == 1..NumRequests
Refreshers == (NumRequests + 1)..(2 * NumRequests)
RefresherOf(w) == NumRequests + w
Procs == Workers \cup Refreshers
NoProc == 0

NoKey == <<>>
NoPayload == [k |-> NoKey, n |-> 0]
NoEntry == [ok |-> FALSE, Payload |-> NoPayload, StoredAt |-> 0]

VARIABLES
    now,      \* wall clock
    store,    \* the cache store: key -> entry
    m,        \* singleflight.Group.m: flight key -> leading process
    pc,       \* each process's position
    key,      \* the cache key of the process's readThroughCache / refresh
    val,      \* payload held by the process (read, fetched or received)
    err,      \* error held by the process: "", "store", "fetch"
    hit,      \* how the request went: "", "fresh", "stale", "miss", "error", "bad",
              \* "proxy"
    lead,     \* the leader of the flight the process is merged into
    wrote,    \* the flight's store Set has returned: "", "ok", "failed"
    invoked,  \* invocations of the fetch closure begun so far
    cancelled, \* the requests whose context (r.Context()) has been cancelled
    entry,    \* the entry that the request's h.cache.Get returned
    targets,  \* h.targets: the member targets the handler selects from
    calls,    \* the chooseTarget calls made so far, each with what it returned
    request,  \* the inbound request ServeHTTP is handling
    hpc,      \* the position of ServeHTTP in that request
    resp,     \* the http.ResponseWriter: header map, WriteHeader and Write calls
    outReq,   \* the outbound requests handed to Client.Do
    lookupKey, \* the key handed to readThroughCache for the request
    resolved, \* the target URL pickTargetURL resolved
    storeOps, \* store accesses made for the request
    upCalls,  \* upstream calls made for the request
    poolLen,  \* len(p.targets) of the upstream.Pool
    cursor,   \* p.cursor, an unsigned 64-bit counter, as four 16-bit digits
    wraps,    \* how many times p.cursor has wrapped around
    observed, \* per caller of Pool.Next: the value cursor.Add(1)-1 gave it
    picked,   \* per caller of Pool.Next: how its index expression came out
    cfg,      \* h.cfg: BackgroundRefreshAfter and CacheTTL
    run,      \* per search runner: where it is in handleSearch / fetchSearchPayload
    fstore,   \* the cache store under the search and avatar keys
    flights   \* singleflight.Group.m under the search and avatar flight keys

cacheVars == <<now, store, m, pc, key, val, err, hit, lead, wrote, invoked,
               cancelled, entry>>

selVars == <<targets, calls>>

httpVars == <<request, hpc, resp, outReq, lookupKey, resolved, storeOps, upCalls>>

\* what the actions of each specification leave alone
poolVars == <<poolLen, cursor, wraps, observed, picked>>

cfgVars == <<cfg>>

fanVars == <<run, fstore, flights>>

notCache == <<selVars, httpVars, poolVars, cfgVars, fanVars>>

notSel == <<cacheVars, httpVars, poolVars, cfgVars, fanVars>>

notHttp == <<cacheVars, selVars, poolVars, cfgVars, fanVars>>

notPool == <<cacheVars, selVars, httpVars, cfgVars, fanVars>>

notFan == <<cacheVars, selVars, httpVars, poolVars, cfgVars>>

vars == <<cacheVars, selVars, httpVars, poolVars, cfgVars, fanVars>>

\* the singleflight key process p hands to sgroup.Do
FlightOf(p) == IF p \in Workers THEN key[p] ELSE RefreshFlight(key[p])

\* variant: the refresh runs on a context derived from the triggering request's
CtxOfInherited(p) == IF p \in Workers THEN p ELSE p - NumRequests

\* the request whose context the ctx handed to fetch(ctx) is derived from: the
\* caller's own on the miss path (context.WithTimeout(r.Context(), ...)), none
\* for a refresh (context.WithTimeout(context.Background(), ...))
CtxOf(p) == IF p \in Workers THEN p ELSE NoProc

\* the ctx of the closure that p runs is done because a request was cancelled
Aborted(p) == CtxOf(p) \in cancelled

\* variant: the threshold itself counts as stale
IsStaleInclusive(age) == age >= cfg.BackgroundRefreshAfter

\* age > h.cfg.BackgroundRefreshAfter
IsStale(age) == age > cfg.BackgroundRefreshAfter

\* variant: the store never expires an entry
GetNoExpiry(k) == store[k]

\* Store.Get: the entry under k, unless Redis has expired it
Get(k) ==
    IF store[k].ok /\ now - store[k].StoredAt < cfg.CacheTTL THEN store[k]
    ELSE NoEntry

\* variant: the registry lookup never finds a call
NeverRegistered(f) == FALSE

\* singleflight.Group.Do: a call for flight key f is already registered
Registered(f) == m[f] # NoProc

\* where a process is once sgroup.Do has returned
AfterDo(p) == IF p \in Workers THEN "ret" ELSE "exit"

(***************************************************************************)
(* Target selection and resolution (Handler.chooseTarget).                 *)
(* URLs are records of the url.URL fields the code sets; strings are       *)
(* sequences of characters as above.  The inputs contain no "." or ".."    *)
(* path segments.                                                          *)
(***************************************************************************)

\* bound on the number of chooseTarget calls recorded in one behaviour
MaxCalls == 2

\* the bytes of the characters that occur in the keys
Byte(c) ==
    CASE c = "/" -> 47 [] c = "1" -> 49 [] c = "2" -> 50 [] c = "7" -> 55
      [] c = "=" -> 61 [] c = "?" -> 63 [] c = "a" -> 97 [] c = "b" -> 98
      [] c = "e" -> 101 [] c = "r" -> 114 [] c = "s" -> 115
      [] c = "u" -> 117 [] c = "v" -> 118 [] c = "x" -> 120

RECURSIVE Xor(_, _, _)
\* bitwise exclusive or of the n low bits of a and b
Xor(a, b, n) ==
    IF n = 0 THEN 0
    ELSE (((a % 2) + (b % 2)) % 2) + 2 * Xor(a \div 2, b \div 2, n - 1)

\* hash/fnv New32a: the 32-bit state is kept as <<high 16 bits, low 16 bits>>
\* so that no intermediate value leaves the checker's integers.
\* offset32 = 2166136261 = 0x811C9DC5
offset32 == <<33052, 40389>>

\* one byte of sum32a.Write: hash ^= b; hash *= prime32 (16777619 = 2^24 + 403),
\* modulo 2^32
fnvStep(h, b) ==
    LET lo1 == (h[2] \div 256) * 256 + Xor(h[2] % 256, b, 8)
        t   == lo1 * 403
    IN  << ((h[1] * 403) + (t \div 65536) + ((lo1 % 256) * 256)) % 65536, t % 65536 >>

RECURSIVE fnvWrite(_, _)
fnvWrite(h, s) ==
    IF s = <<>> THEN h ELSE fnvWrite(fnvStep(h, Byte(Head(s))), Tail(s))

\* variant: the index comes from a round-robin cursor (as upstream.Pool.Next)
ConsistentIndexCursor(k, buckets) ==
    IF buckets <= 0 THEN 0 ELSE Len(calls) % buckets

\* util.ConsistentIndex: Sum32() % buckets, computed on the two halves
ConsistentIndex(k, buckets) ==
    IF buckets <= 0 THEN 0
    ELSE LET h == fnvWrite(offset32, k)
         IN  ((h[1] % buckets) * (65536 % buckets) + h[2]) % buckets

NoURL == [Scheme |-> "", Host |-> <<>>, Path |-> <<>>, RawQuery |-> <<>>]

robloxSuffix == <<".", "r", "o", "b", "l", "o", "x", ".", "c", "o", "m">>

RECURSIVE Split(_)
\* strings.Split(s, "/")
Split(s) ==
    IF \A i \in 1..Len(s) : s[i] # "/" THEN <<s>>
    ELSE LET i == CHOOSE j \in 1..Len(s) :
                      s[j] = "/" /\ \A l \in 1..(j - 1) : s[l] # "/"
         IN  <<SubSeq(s, 1, i - 1)>> \o Split(SubSeq(s, i + 1, Len(s)))

RECURSIVE Join(_)
\* strings.Join(segs, "/")
Join(segs) ==
    IF segs = <<>> THEN <<>>
    ELSE IF Len(segs) = 1 THEN segs[1]
    ELSE segs[1] \o <<"/">> \o Join(Tail(segs))

RECURSIVE TrimRightSlash(_)
\* strings.TrimRight(s, "/")
TrimRightSlash(s) ==
    IF s # <<>> /\ s[Len(s)] = "/" THEN TrimRightSlash(SubSeq(s, 1, Len(s) - 1))
    ELSE s

RECURSIVE TrimLeftSlash(_)
\* strings.TrimLeft(s, "/")
TrimLeftSlash(s) ==
    IF s # <<>> /\ s[1] = "/" THEN TrimLeftSlash(Tail(s)) ELSE s

\* variant: the rewritten path keeps the first segment
resolveRobloxTargetKeepsSegment(path) ==
    LET segments == Split(path)
    IN  IF Len(segments) < 2 \/ segments[2] = <<>>
        THEN [err |-> "bad-path", host |-> <<>>, path |-> <<>>]
        ELSE [err |-> "", host |-> segments[2] \o robloxSuffix,
              path |-> <<"/">> \o Join(SubSeq(segments, 2, Len(segments)))]

\* resolveRobloxTarget (the slice segments is indexed from 0 in the code)
resolveRobloxTarget(path) ==
    LET segments  == Split(path)
        remaining == Join(SubSeq(segments, 3, Len(segments)))
    IN  IF Len(segments) < 2 \/ segments[2] = <<>>
        THEN [err |-> "bad-path", host |-> <<>>, path |-> <<>>]
        ELSE [err |-> "", host |-> segments[2] \o robloxSuffix,
              path |-> IF remaining = <<>> THEN <<"/">>
                       ELSE <<"/">> \o remaining]

\* net/url resolvePath for paths without dot segments: a reference that
\* begins with "/" replaces the base path, any other reference replaces what
\* follows the last "/" of the base; the result begins with "/"
resolvePath(base, ref) ==
    LET last == IF \E i \in 1..Len(base) : base[i] = "/"
                THEN CHOOSE i \in 1..Len(base) :
                         base[i] = "/" /\ \A j \in (i + 1)..Len(base) : base[j] # "/"
                ELSE 0
        full == IF ref = <<>> THEN base
                ELSE IF ref[1] # "/" THEN SubSeq(base, 1, last) \o ref
                ELSE ref
    IN  IF full = <<>> THEN <<>>
        ELSE IF full[1] = "/" THEN full
        ELSE <<"/">> \o full

\* (*url.URL).ResolveReference for a reference that has only Path and RawQuery
ResolveReference(u, ref) ==
    [Scheme   |-> u.Scheme,
     Host     |-> u.Host,
     Path     |-> resolvePath(u.Path, ref.Path),
     RawQuery |-> IF ref.Path = <<>> /\ ref.RawQuery = <<>> THEN u.RawQuery
                  ELSE ref.RawQuery]

\* upstream.joinURLPath with ensureLeadingSlash, the join of Target.Resolve
ensureLeadingSlash(path) ==
    IF path = <<>> THEN <<"/">>
    ELSE IF path[1] # "/" THEN <<"/">> \o path
    ELSE path

joinURLPath(basePath, reqPath) ==
    IF basePath = <<>>
    THEN IF reqPath = <<>> THEN <<"/">> ELSE ensureLeadingSlash(reqPath)
    ELSE IF reqPath = <<>> THEN ensureLeadingSlash(basePath)
    ELSE LET b == ensureLeadingSlash(basePath)
             r == ensureLeadingSlash(reqPath)
         IN  IF b[Len(b)] = "/" THEN b \o Tail(r) ELSE b \o r

\* variant: a Static target is resolved by joining the paths (Target.Resolve)
StaticURLJoined(target, path, rawQuery) ==
    [Scheme   |-> target.Base.Scheme,
     Host     |-> target.Base.Host,
     Path     |-> joinURLPath(target.Base.Path, path),
     RawQuery |-> rawQuery]

\* chooseTarget, case MemberTargetStatic
StaticURL(target, path, rawQuery) ==
    ResolveReference(target.Base, [Path |-> path, RawQuery |-> rawQuery])

\* chooseTarget, case MemberTargetDirect
DirectURL(path, rawQuery) ==
    LET r == resolveRobloxTarget(path)
    IN  IF r.err # "" THEN [err |-> r.err, url |-> NoURL]
        ELSE [err |-> "",
              url |-> [Scheme |-> "https", Host |-> r.host, Path |-> r.path,
                       RawQuery |-> rawQuery]]

\* the selector key of chooseTarget
targetKey(path, rawQuery) ==
    IF rawQuery # <<>> THEN path \o <<"?">> \o rawQuery ELSE path

\* Handler.chooseTarget: idx is the index it picked (0-based, -1 when it
\* picked none), url and err are what it returns
chooseTarget(path, rawQuery) ==
    IF Len(targets) = 0
    THEN [idx |-> -1, err |-> "no-targets", url |-> NoURL]
    ELSE LET idx    == ConsistentIndex(targetKey(path, rawQuery), Len(targets))
             target == targets[idx + 1]
         IN  CASE target.Kind = "Direct" ->
                    [idx |-> idx] @@ DirectURL(path, rawQuery)
               [] target.Kind = "Static" ->
                    [idx |-> idx, err |-> "",
                     url |-> StaticURL(target, path, rawQuery)]
               [] OTHER ->
                    [idx |-> idx, err |-> "no-targets", url |-> NoURL]

\* cfg.MemberClusters entries as url.Parse reads them; direct stands for an
\* entry that equals "direct://" under case folding
DirectEntry == [direct |-> TRUE, Scheme |-> "", Host |-> <<>>, Path |-> <<>>]

ClusterA == [direct |-> FALSE, Scheme |-> "http", Host |-> <<"a">>, Path |-> <<>>]

ClusterASlash == [direct |-> FALSE, Scheme |-> "http", Host |-> <<"a">>,
                  Path |-> <<"/">>]

ClusterB == [direct |-> FALSE, Scheme |-> "https", Host |-> <<"b">>,
             Path |-> <<"/", "x", "/">>]

ClusterFTP == [direct |-> FALSE, Scheme |-> "ftp", Host |-> <<"a">>, Path |-> <<>>]

MemberClusters ==
    { <<>>, <<DirectEntry>>, <<ClusterA>>, <<ClusterB>>, <<ClusterFTP>>,
      <<ClusterASlash, DirectEntry>>, <<ClusterB, ClusterA, DirectEntry>>,
      <<DirectEntry, ClusterB>> }

\* upstream.ParseMemberTargets
ParseMemberTargets(raw) ==
    IF Len(raw) = 0 THEN [err |-> "no member targets", targets |-> <<>>]
    ELSE IF \E i \in 1..Len(raw) :
                ~raw[i].direct /\ raw[i].Scheme \notin {"http", "https"}
    THEN [err |-> "scheme", targets |-> <<>>]
    ELSE [err |-> "",
          targets |-> [i \in 1..Len(raw) |->
              IF raw[i].direct THEN [Kind |-> "Direct", Base |-> NoURL]
              ELSE [Kind |-> "Static",
                    Base |-> [Scheme |-> raw[i].Scheme, Host |-> raw[i].Host,
                              Path |-> TrimRightSlash(raw[i].Path),
                              RawQuery |-> <<>>]]]]

\* inbound r.URL.Path and r.URL.RawQuery of passthrough requests
InboundPaths ==
    { <<>>, <<"/">>, <<"/", "a">>, <<"/", "a", "/">>, <<"/", "a", "/", "b">>,
      <<"/", "/", "b">>, <<"/", "a", "/", "/", "b">>,
      <<"/", "b", "/", "a", "/", "x">>, <<"/", "a", "?", "b">> }

InboundQueries == { <<>>, <<"b">>, <<"x", "=", "1">> }

\* the user ids fetchUserPayload is called with
UserIDs == { <<"7">>, <<"1", "2">> }


(***************************************************************************)
(* One inbound request through Handler.ServeHTTP, with the response writer *)
(* and the Forwarder.  Header values and bodies are sequences of tokens.   *)
(***************************************************************************)

\* proxy.hopHeaders
hopHeaders ==
    <<"Connection", "Proxy-Connection", "Keep-Alive", "Proxy-Authenticate",
      "Proxy-Authorization", "Te", "Trailer", "Transfer-Encoding", "Upgrade">>

HopSet == {hopHeaders[i] : i \in 1..Len(hopHeaders)}

\* the header names that occur
HeaderNames ==
    {"Connection", "Proxy-Connection", "Keep-Alive", "Proxy-Authenticate",
     "Proxy-Authorization", "Te", "Trailer", "Transfer-Encoding", "Upgrade",
     "Accept", "Server", "X-Forwarded-For", "X-Forwarded-Proto",
     "X-Forwarded-Host", "Content-Type", "Access-Control-Allow-Origin",
     "Cache-Control"}

\* an http.Header: each name with its list of values, none when absent
EmptyHeader == [n \in HeaderNames |-> <<>>]

HeaderOf(f) == [n \in HeaderNames |-> IF n \in DOMAIN f THEN f[n] ELSE <<>>]

\* Header.Get: the first value, "" when there is none
HeaderGet(h, n) == IF h[n] = <<>> THEN <<>> ELSE h[n][1]

\* Header.Set
HeaderSet(h, n, v) == [h EXCEPT ![n] = <<v>>]

\* copyHeaders: every value of every key is added to dst
copyHeaders(dst, src) == [n \in HeaderNames |-> dst[n] \o src[n]]

\* variant: the hop-by-hop headers are left in place
delHopHeadersNone(h) == h

\* for _, h := range hopHeaders { header.Del(h) }
delHopHeaders(h) ==
    [n \in HeaderNames |->
        IF \E i \in 1..Len(hopHeaders) : hopHeaders[i] = n THEN <<>> ELSE h[n]]

\* schemeFromRequest
schemeFromRequest(r) ==
    IF r.tls THEN <<"https">>
    ELSE IF HeaderGet(r.header, "X-Forwarded-Proto") # <<>>
    THEN HeaderGet(r.header, "X-Forwarded-Proto")
    ELSE IF r.scheme # <<>> THEN r.scheme
    ELSE <<"http">>

\* setForwardedHeaders; r.remote is the host part of r.RemoteAddr
setForwardedHeaders(header, r) ==
    LET prior == HeaderGet(header, "X-Forwarded-For")
        h1 == IF r.remote = <<>> THEN header
              ELSE IF prior = <<>>
              THEN HeaderSet(header, "X-Forwarded-For", r.remote)
              ELSE HeaderSet(header, "X-Forwarded-For",
                             prior \o <<", ">> \o r.remote)
        h2 == IF HeaderGet(r.header, "X-Forwarded-Proto") = <<>>
              THEN HeaderSet(h1, "X-Forwarded-Proto", schemeFromRequest(r))
              ELSE h1
    IN  HeaderSet(h2, "X-Forwarded-Host", r.host)

\* cloneRequestWithURL: the outbound request for the target URL
cloneRequestWithURL(r, url) ==
    [url    |-> url,
     header |-> setForwardedHeaders(
                    delHopHeaders(copyHeaders(EmptyHeader, r.header)), r),
     host   |-> url.Host]

\* the response writer before the handler has touched it: its header map,
\* the headers that went out with the status line, the WriteHeader calls and
\* the Write calls
NoResp == [hdr |-> EmptyHeader, wire |-> EmptyHeader, wh |-> <<>>, body |-> <<>>]

\* ResponseWriter.WriteHeader: the first call sends the status with the header
\* map as it is then; a later call changes nothing on the wire
WriteHeader(w, status) ==
    [w EXCEPT !.wh = Append(@, status),
              !.wire = IF w.wh = <<>> THEN w.hdr ELSE @]

\* ResponseWriter.Write
Write(w, payload) == [w EXCEPT !.body = Append(@, payload)]

\* the status the client receives
StatusOf(w) == IF w.wh = <<>> THEN 0 ELSE w.wh[1]

\* respondJSON
respondJSON(w, status, payload) ==
    LET h == HeaderSet(HeaderSet(w.hdr, "Content-Type", <<"application/json">>),
                       "Access-Control-Allow-Origin", <<"*">>)
    IN  Write(WriteHeader([w EXCEPT !.hdr = h], status), payload)

\* respondError
respondError(w, status, e) == respondJSON(w, status, <<"{\"error\":\"", e, "\"}">>)

\* respondCachedJSON
respondCachedJSON(w, payload) ==
    LET h == HeaderSet(HeaderSet(HeaderSet(w.hdr,
                 "Content-Type", <<"application/json">>),
                 "Access-Control-Allow-Origin", <<"*">>),
                 "Cache-Control", <<"max-age=18000">>)
    IN  Write(WriteHeader([w EXCEPT !.hdr = h], 200), payload)

NoRequest == [userId |-> <<>>, search |-> <<>>, path |-> <<>>, rawQuery |-> <<>>,
              header |-> EmptyHeader, remote |-> <<>>, host |-> <<>>,
              scheme |-> <<>>, tls |-> FALSE]

\* the userId and search parameters of the inbound requests
Params ==
    { [userId |-> <<"7">>, search |-> <<>>],
      [userId |-> <<" ", "7", " ">>, search |-> <<>>],
      [userId |-> <<"7", "a">>, search |-> <<>>],
      [userId |-> <<"7">>, search |-> <<"a", "b", "c">>],
      [userId |-> <<"7", "a">>, search |-> <<"a", "b", "c">>],
      [userId |-> <<" ", " ">>, search |-> <<"a", "b", "c">>],
      [userId |-> <<>>, search |-> <<"a", "b">>],
      [userId |-> <<>>, search |-> <<" ", "a", "b", " ">>],
      [userId |-> <<>>, search |-> <<" ", "A", "b", "c">>],
      [userId |-> <<>>, search |-> <<"é", "a">>],
      [userId |-> <<>>, search |-> <<>>],
      [userId |-> <<" ">>, search |-> <<" ", " ", " ">>] }

\* the headers of the inbound requests
InboundHeaders ==
    { EmptyHeader,
      HeaderOf([n \in HopSet \cup {"Accept"} |-> << <<"x">> >>]),
      HeaderOf(("Accept" :> << <<"json">> >>)
               @@ ("X-Forwarded-For" :> << <<"1.1.1.1">> >>)
               @@ ("X-Forwarded-Host" :> << <<"evil">> >>)
               @@ ("X-Forwarded-Proto" :> << <<"https">> >>)),
      HeaderOf(("Connection" :> << <<"close">>, <<"Te">> >>)
               @@ ("Accept" :> << <<"json">>, <<"text">> >>)) }

\* the inbound requests
HttpRequests ==
    { [userId |-> p.userId, search |-> p.search, path |-> pa,
       rawQuery |-> <<>>, header |-> h, remote |-> rm, host |-> <<"proxy">>,
       scheme |-> <<>>, tls |-> t] :
         p \in Params, pa \in {<<"/">>, <<"/", "a", "/", "b">>},
         h \in InboundHeaders, rm \in {<<>>, <<"9.9.9.9">>}, t \in BOOLEAN }

\* the responses of an upstream
UpstreamResponses ==
    { [status |-> st, header |-> h] :
         st \in {200, 404},
         h \in { HeaderOf("Content-Type" :> << <<"text/html">> >>),
                 HeaderOf([n \in HopSet \cup {"Server"} |-> << <<"y">> >>]) } }

\* the variables of the other specifications, held at rest
HttpPinned ==
    /\ request = NoRequest
    /\ hpc = "off"
    /\ resp = NoResp
    /\ outReq = <<>>
    /\ lookupKey = NoKey
    /\ resolved = NoURL
    /\ storeOps = 0
    /\ upCalls = 0

(***************************************************************************)
(* The search fan-out: handleSearch -> readThroughCache ->                 *)
(* fetchSearchPayload, which looks up one avatar per search result through *)
(* readThroughCache again (lookupAvatarURL), inside its own flight.        *)
(* The age of an entry is not tracked here: a read of a stored entry may   *)
(* find it fresh, stale or expired.                                        *)
(***************************************************************************)

\* bound on the number of search runners in one behaviour
NumSearches == 2
\* bound on the number of contents of a search result; the content ids are
\* 1..MaxContents
MaxContents == 2

Runners == 1..NumSearches
ContentIDs == 1..MaxContents

\* the needles handleSearch is called with
FanNeedles == { <<"A","b","c">> }

DigitChars == <<"0", "1", "2", "3", "4", "5", "6", "7", "8", "9">>

\* fmt.Sprintf("%d", entry.ContentID), for the ids of the model
Sprintf(id) == <<DigitChars[id + 1]>>

\* the username the search API returns with content id
Username(id) == <<"n">> \o Sprintf(id)

\* the image URL the thumbnails API returns for a user
ImageURL(id) == <<"u">> \o Sprintf(id)

\* searchResp.SearchResults[0].Contents as the search API may return it:
\* nothing, or the ids in ascending or in descending order
ContentLists ==
    { <<>>, [i \in 1..MaxContents |-> i],
      [i \in 1..MaxContents |-> MaxContents + 1 - i] }

\* payloads: kind "object" is fetchAvatarPayload's {"url": ...}, "array" is
\* fetchSearchPayload's list, "garbage" does not decode, "nil" is no payload
NilPayload == [kind |-> "nil", url |-> <<>>, final |-> <<>>]
GarbagePayload == [kind |-> "garbage", url |-> <<>>, final |-> <<>>]

\* fetchAvatarPayload: json.Marshal(payload)
AvatarPayload(u) == [kind |-> "object", url |-> u, final |-> <<>>]

\* fetchSearchPayload: json.Marshal(final), json.Marshal([]any{})
SearchPayload(final) == [kind |-> "array", url |-> <<>>, final |-> final]

NoFanEntry == [ok |-> FALSE, Payload |-> NilPayload]

FanSearchKeys == {searchCacheKey(ToLower(q)) : q \in FanNeedles}
FanAvatarKeys == {avatarCacheKey(Sprintf(id)) : id \in ContentIDs}
FanKeys == FanSearchKeys \cup FanAvatarKeys
FanFlightKeys == FanKeys \cup {RefreshFlight(k) : k \in FanKeys}

\* the goroutine launchRefresh starts for the avatar of id
AvatarRefresher(id) == NumSearches + id

\* a singleflight result handed to the leader and the waiters
NoGot == [err |-> "", payload |-> NilPayload]

NoRun ==
    [ pc |-> "idle", bg |-> FALSE, needle |-> <<>>, fkey |-> <<>>,
      contents |-> <<>>, fetched |-> FALSE, final |-> <<>>, looks |-> <<>>,
      lead |-> 0, got |-> NoGot, status |-> 0, body |-> NilPayload ]

\* lookupAvatarURL, after readThroughCache returned g: the error of the
\* lookup, else json.Unmarshal into {url}
lookupAvatarURL(g) ==
    IF g.err # "" THEN [url |-> <<>>, err |-> g.err]
    ELSE IF g.payload.kind # "object" THEN [url |-> <<>>, err |-> "decode"]
    ELSE [url |-> g.payload.url, err |-> ""]

\* fetchSearchPayload, one round of the loop over contents: the error is
\* logged, the entry is filled in
LoopRound(r, g) ==
    [r EXCEPT
        !.looks = Append(@, lookupAvatarURL(g).err # ""),
        !.final = Append(@, [ PlayerID |-> Sprintf(r.contents[Len(r.final) + 1]),
                              Name |-> Username(r.contents[Len(r.final) + 1]),
                              AvatarURL |-> lookupAvatarURL(g).url ]),
        !.pc = IF Len(r.final) + 1 = Len(r.contents) THEN "set" ELSE "loop",
        !.got = NoGot, !.lead = 0]

\* variant: a failed avatar lookup fails the search fetch
fetchResultStrict(r) ==
    IF \E i \in 1..Len(r.looks) : r.looks[i]
    THEN [err |-> "avatar", payload |-> NilPayload]
    ELSE [err |-> "", payload |-> SearchPayload(r.final)]

\* fetchSearchPayload: what it returns after the loop
fetchResult(r) == [err |-> "", payload |-> SearchPayload(r.final)]

\* wg.Done of a call led by leader: every waiter at position at is handed
\* the call's result and moves to position to
Deliver(rs, leader, at, to, g) ==
    [q \in Runners |->
        IF rs[q].pc = at /\ rs[q].lead = leader
        THEN [rs[q] EXCEPT !.pc = to, !.got = g]
        ELSE rs[q]]

FanPinned ==
    /\ run = [p \in Runners |-> NoRun]
    /\ fstore = [k \in FanKeys |-> NoFanEntry]
    /\ flights = [f \in FanFlightKeys |-> NoProc]

(***************************************************************************)
(* upstream.Pool: the round-robin selector.  The 64-bit cursor is kept as  *)
(* four 16-bit digits, most significant first; int is 64 bits wide.        *)
(***************************************************************************)

\* bound on the number of concurrent callers of Pool.Next
NumCallers == 2

Callers == 1..NumCallers

\* uint64 from its four digits is d[1]*2^48 + d[2]*2^32 + d[3]*2^16 + d[4]
ZeroCursor == <<0, 0, 0, 0>>

\* cursor + 1 modulo 2^64
Inc64(d) ==
    IF d[4] < 65535 THEN <<d[1], d[2], d[3], d[4] + 1>>
    ELSE IF d[3] < 65535 THEN <<d[1], d[2], d[3] + 1, 0>>
    ELSE IF d[2] < 65535 THEN <<d[1], d[2] + 1, 0, 0>>
    ELSE IF d[1] < 65535 THEN <<d[1] + 1, 0, 0, 0>>
    ELSE ZeroCursor

\* the unsigned value of d modulo n
Mod64(d, n) ==
    LET r == 65536 % n
    IN  ((((((d[1] % n) * r + d[2]) % n) * r + d[3]) % n) * r + d[4]) % n

\* 2^64 modulo n
TwoTo64Mod(n) ==
    LET r == 65536 % n
    IN  (((((r * r) % n) * r) % n) * r) % n

\* int(v) % n of Pool.Next: int(v) is v - 2^64 when v >= 2^63, and Go's %
\* takes the sign of the dividend
PoolIndex(d, n) ==
    IF d[1] < 32768 THEN Mod64(d, n)
    ELSE 0 - ((TwoTo64Mod(n) + n - Mod64(d, n)) % n)

NotPicked == [done |-> FALSE, idx |-> 0, panic |-> FALSE]

\* a caller that has not yet passed cursor.Add; epoch is the number of
\* wrap-arounds before the value v was handed out
NotObserved == [seen |-> FALSE, v |-> ZeroCursor, epoch |-> 0]

\* cursor values a pool has after that many calls of Next
StartCursors ==
    { ZeroCursor, <<0, 0, 0, 65535>>, <<0, 0, 65535, 65535>>,
      <<32767, 65535, 65535, 65534>>, <<32768, 0, 0, 0>>, <<40000, 1, 2, 3>>,
      <<65535, 65535, 65535, 65534>>, <<65535, 65535, 65535, 65535>> }

PoolPinned ==
    /\ poolLen = 1
    /\ cursor = ZeroCursor
    /\ wraps = 0
    /\ observed = [c \in Callers |-> NotObserved]
    /\ picked = [c \in Callers |-> NotPicked]

CfgPinned ==
    cfg = [BackgroundRefreshAfter |-> BackgroundRefreshAfter, CacheTTL |-> CacheTTL]

SelPinned ==
    /\ targets = ParseMemberTargets(<<DirectEntry>>).targets
    /\ calls = <<>>

CachePinned ==
    /\ now = 0
    /\ store = [k \in CacheKeys |-> NoEntry]
    /\ m = [f \in FlightKeys |-> NoProc]
    /\ pc = [p \in Procs |-> IF p \in Workers THEN "idle" ELSE "free"]
    /\ key = [p \in Procs |-> NoKey]
    /\ val = [p \in Procs |-> NoPayload]
    /\ err = [p \in Procs |-> ""]
    /\ hit = [p \in Procs |-> ""]
    /\ lead = [p \in Procs |-> NoProc]
    /\ wrote = [p \in Procs |-> ""]
    /\ invoked = 0
    /\ cancelled = {}
    /\ entry = [w \in Workers |-> NoEntry]

(***************************************************************************)
(* The cache behaviours.                                                   *)
(***************************************************************************)

\* the store outlives the process: at start a key is absent or holds a payload
\* written earlier
InitEntry(k) == [ok |-> TRUE, Payload |-> [k |-> k, n |-> 0], StoredAt |-> 0]

\* everything but the configuration
InitLookups ==
    /\ now = 0
    /\ store \in [CacheKeys -> {NoEntry} \cup {InitEntry(k) : k \in CacheKeys}]
    /\ \A k \in CacheKeys : store[k].ok => store[k] = InitEntry(k)
    /\ m = [f \in FlightKeys |-> NoProc]
    /\ pc = [p \in Procs |-> IF p \in Workers THEN "idle" ELSE "free"]
    /\ key = [p \in Procs |-> NoKey]
    /\ val = [p \in Procs |-> NoPayload]
    /\ err = [p \in Procs |-> ""]
    /\ hit = [p \in Procs |-> ""]
    /\ lead = [p \in Procs |-> NoProc]
    /\ wrote = [p \in Procs |-> ""]
    /\ invoked = 0
    /\ cancelled = {}
    /\ entry = [w \in Workers |-> NoEntry]
    /\ targets = ParseMemberTargets(<<DirectEntry>>).targets
    /\ calls = <<>>
    /\ HttpPinned /\ FanPinned /\ PoolPinned

Init == CfgPinned /\ InitLookups

\* wall clock advances
Tick ==
    /\ UNCHANGED notCache
    /\ now < MaxTime
    /\ now' = now + 1
    /\ UNCHANGED <<store, m, pc, key, val, err, hit, lead, wrote, invoked, cancelled, entry>>

\* the context of request w is cancelled while its handler is inside sgroup.Do
\* (the client went away). Once fetch(ctx) has returned nothing on the path
\* reads ctx any more (storeWithTTL runs on its own context), and when the
\* handler returns the context is cancelled in any case (defer cancel(), and
\* net/http on return from ServeHTTP)
Cancel(w) ==
    /\ UNCHANGED notCache
    /\ pc[w] \in {"wait", "fetch"}
    /\ w \notin cancelled
    /\ cancelled' = cancelled \cup {w}
    /\ UNCHANGED <<now, entry, store, m, pc, key, val, err, hit, lead, wrote, invoked>>

\* request w arrives: requests are numbered by arrival
Arrives(w) == pc[w] = "idle" /\ \A v \in Workers : v < w => pc[v] # "idle"

\* ServeHTTP -> handleUserLookup / handleSearch: malformed userId or short
\* search: respondJSON(w, 400, ...)
Reject(w, req) ==
    /\ UNCHANGED notCache
    /\ Arrives(w)
    /\ Rejected(req)
    /\ pc' = [pc EXCEPT ![w] = "ret"]
    /\ hit' = [hit EXCEPT ![w] = "bad"]
    /\ cancelled' = cancelled \cup {w}
    /\ UNCHANGED <<now, entry, store, m, key, val, err, lead, wrote, invoked>>

\* ServeHTTP -> handleProxy: neither parameter is present: the request is
\* passed through to the resolved target, uncached
Passthrough(w, req) ==
    /\ UNCHANGED notCache
    /\ Arrives(w)
    /\ Route(req) = "proxy"
    /\ pc' = [pc EXCEPT ![w] = "ret"]
    /\ hit' = [hit EXCEPT ![w] = "proxy"]
    /\ cancelled' = cancelled \cup {w}
    /\ UNCHANGED <<now, entry, store, m, key, val, err, lead, wrote, invoked>>

\* variant: a store read error falls back to fetching
GetErrorFallback(w, req) ==
    /\ UNCHANGED notCache
    /\ Arrives(w)
    /\ req \in Lookups
    /\ pc' = [pc EXCEPT ![w] = "do"]
    /\ key' = [key EXCEPT ![w] = KeyOf(req)]
    /\ hit' = [hit EXCEPT ![w] = "error"]
    /\ UNCHANGED <<now, entry, cancelled, store, m, val, err, lead, wrote, invoked>>

\* ServeHTTP -> handleUserLookup / handleSearch -> readThroughCache:
\* h.cache.Get returns an error
GetError(w, req) ==
    /\ UNCHANGED notCache
    /\ Arrives(w)
    /\ req \in Lookups
    /\ pc' = [pc EXCEPT ![w] = "ret"]
    /\ key' = [key EXCEPT ![w] = KeyOf(req)]
    /\ err' = [err EXCEPT ![w] = "store"]
    /\ hit' = [hit EXCEPT ![w] = "error"]
    /\ cancelled' = cancelled \cup {w}
    /\ UNCHANGED <<now, entry, store, m, val, lead, wrote, invoked>>

\* readThroughCache: hit, age <= BackgroundRefreshAfter
GetFresh(w, req) ==
    /\ UNCHANGED notCache
    /\ Arrives(w)
    /\ req \in Lookups
    /\ Get(KeyOf(req)).ok
    /\ ~IsStale(now - Get(KeyOf(req)).StoredAt)
    /\ pc' = [pc EXCEPT ![w] = "ret"]
    /\ key' = [key EXCEPT ![w] = KeyOf(req)]
    /\ entry' = [entry EXCEPT ![w] = Get(KeyOf(req))]
    /\ val' = [val EXCEPT ![w] = Get(KeyOf(req)).Payload]
    /\ hit' = [hit EXCEPT ![w] = "fresh"]
    /\ cancelled' = cancelled \cup {w}
    /\ UNCHANGED <<now, store, m, err, lead, wrote, invoked>>

\* variant: the caller waits for the refresh it launched
GetStaleBlocking(w, req) ==
    /\ UNCHANGED notCache
    /\ Arrives(w)
    /\ req \in Lookups
    /\ Get(KeyOf(req)).ok
    /\ IsStale(now - Get(KeyOf(req)).StoredAt)
    /\ pc' = [pc EXCEPT ![w] = "wait", ![RefresherOf(w)] = "do"]
    /\ lead' = [lead EXCEPT ![w] = RefresherOf(w)]
    /\ key' = [key EXCEPT ![w] = KeyOf(req), ![RefresherOf(w)] = KeyOf(req)]
    /\ entry' = [entry EXCEPT ![w] = Get(KeyOf(req))]
    /\ val' = [val EXCEPT ![w] = Get(KeyOf(req)).Payload]
    /\ hit' = [hit EXCEPT ![w] = "stale"]
    /\ UNCHANGED <<now, cancelled, store, m, err, wrote, invoked>>

\* readThroughCache: hit, age > BackgroundRefreshAfter: launchRefresh starts the
\* goroutine and the entry's payload is returned
GetStale(w, req) ==
    /\ UNCHANGED notCache
    /\ Arrives(w)
    /\ req \in Lookups
    /\ Get(KeyOf(req)).ok
    /\ IsStale(now - Get(KeyOf(req)).StoredAt)
    /\ pc' = [pc EXCEPT ![w] = "ret", ![RefresherOf(w)] = "do"]
    /\ key' = [key EXCEPT ![w] = KeyOf(req), ![RefresherOf(w)] = KeyOf(req)]
    /\ entry' = [entry EXCEPT ![w] = Get(KeyOf(req))]
    /\ val' = [val EXCEPT ![w] = Get(KeyOf(req)).Payload]
    /\ hit' = [hit EXCEPT ![w] = "stale"]
    /\ cancelled' = cancelled \cup {w}
    /\ UNCHANGED <<now, store, m, err, lead, wrote, invoked>>

\* readThroughCache: no entry, on to sgroup.Do
GetMiss(w, req) ==
    /\ UNCHANGED notCache
    /\ Arrives(w)
    /\ req \in Lookups
    /\ ~Get(KeyOf(req)).ok
    /\ pc' = [pc EXCEPT ![w] = "do"]
    /\ key' = [key EXCEPT ![w] = KeyOf(req)]
    /\ hit' = [hit EXCEPT ![w] = "miss"]
    /\ UNCHANGED <<now, entry, cancelled, store, m, val, err, lead, wrote, invoked>>

\* sgroup.Do: a call is registered under the flight key: wait for its result
DoJoin(p) ==
    /\ UNCHANGED notCache
    /\ pc[p] = "do"
    /\ Registered(FlightOf(p))
    /\ pc' = [pc EXCEPT ![p] = "wait"]
    /\ lead' = [lead EXCEPT ![p] = m[FlightOf(p)]]
    /\ UNCHANGED <<now, entry, cancelled, store, m, key, val, err, hit, wrote, invoked>>

\* sgroup.Do: no call registered: register one and invoke fetch(ctx). val holds
\* the payload this invocation produces if it succeeds: its key and its invoker
DoLead(p) ==
    /\ UNCHANGED notCache
    /\ pc[p] = "do"
    /\ ~Registered(FlightOf(p))
    /\ pc' = [pc EXCEPT ![p] = "fetch"]
    /\ m' = [m EXCEPT ![FlightOf(p)] = p]
    /\ lead' = [lead EXCEPT ![p] = p]
    /\ invoked' = invoked + 1
    /\ val' = [val EXCEPT ![p] = [k |-> key[p], n |-> p]]
    /\ UNCHANGED <<now, entry, cancelled, store, key, err, hit, wrote>>

\* the processes blocked in sgroup.Do on the call that p leads
WaitersOf(p) == {q \in Procs : pc[q] = "wait" /\ lead[q] = p}

\* variant: the completed call stays in the registry
CompleteKeepsCall(p, v, e) ==
    /\ UNCHANGED notCache
    /\ m' = m
    /\ pc' = [q \in Procs |->
                IF q = p \/ q \in WaitersOf(p) THEN AfterDo(q) ELSE pc[q]]
    /\ val' = [q \in Procs |-> IF q = p \/ q \in WaitersOf(p) THEN v ELSE val[q]]
    /\ err' = [q \in Procs |-> IF q = p \/ q \in WaitersOf(p) THEN e ELSE err[q]]
    /\ wrote' = [q \in Procs |-> IF q \in WaitersOf(p) THEN wrote[p] ELSE wrote[q]]
    /\ cancelled' = cancelled \cup ((WaitersOf(p) \cup {p}) \cap Workers)

\* singleflight doCall's completion: the call leaves the registry and the leader
\* and every waiter return its (val, err)
Complete(p, v, e) ==
    /\ UNCHANGED notCache
    /\ m' = [m EXCEPT ![FlightOf(p)] = NoProc]
    /\ pc' = [q \in Procs |->
                IF q = p \/ q \in WaitersOf(p) THEN AfterDo(q) ELSE pc[q]]
    /\ val' = [q \in Procs |-> IF q = p \/ q \in WaitersOf(p) THEN v ELSE val[q]]
    /\ err' = [q \in Procs |-> IF q = p \/ q \in WaitersOf(p) THEN e ELSE err[q]]
    /\ wrote' = [q \in Procs |-> IF q \in WaitersOf(p) THEN wrote[p] ELSE wrote[q]]
    /\ cancelled' = cancelled \cup ((WaitersOf(p) \cup {p}) \cap Workers)

\* variant: a failed fetch is cached as an empty entry
FetchErrCached(p) ==
    /\ UNCHANGED notCache
    /\ pc[p] = "fetch"
    /\ store' = [store EXCEPT ![key[p]] =
                    [ok |-> TRUE, Payload |-> NoPayload, StoredAt |-> now]]
    /\ Complete(p, NoPayload, "fetch")
    /\ UNCHANGED <<now, entry, key, hit, lead, invoked>>

\* fetch(ctx) returns an error: the closure returns (nil, err)
FetchErr(p) ==
    /\ UNCHANGED notCache
    /\ pc[p] = "fetch"
    /\ Complete(p, NoPayload, "fetch")
    /\ UNCHANGED <<now, entry, store, key, hit, lead, invoked>>

\* variant: the upstream call succeeds although its ctx is done
FetchOKIgnoresCtx(p) ==
    /\ UNCHANGED notCache
    /\ pc[p] = "fetch"
    /\ pc' = [pc EXCEPT ![p] = "set"]
    /\ UNCHANGED <<now, entry, cancelled, store, m, key, val, err, hit, lead, wrote, invoked>>

\* variant: the closure returns the payload without storing it
FetchOKSkipStore(p) ==
    /\ UNCHANGED notCache
    /\ pc[p] = "fetch"
    /\ ~Aborted(p)
    /\ pc' = [pc EXCEPT ![p] = "done"]
    /\ UNCHANGED <<now, entry, cancelled, store, m, key, val, err, hit, lead, wrote, invoked>>

\* fetch(ctx) returns a payload: on to storeWithTTL. The upstream call
\* (http.NewRequestWithContext(ctx, ...)) cannot succeed once ctx is done
FetchOK(p) ==
    /\ UNCHANGED notCache
    /\ pc[p] = "fetch"
    /\ ~Aborted(p)
    /\ pc' = [pc EXCEPT ![p] = "set"]
    /\ UNCHANGED <<now, entry, cancelled, store, m, key, val, err, hit, lead, wrote, invoked>>

\* variant: the envelope carries the zero time
SetOKUnstamped(p) ==
    /\ UNCHANGED notCache
    /\ pc[p] = "set"
    /\ store' = [store EXCEPT ![key[p]] =
                    [ok |-> TRUE, Payload |-> val[p], StoredAt |-> 0]]
    /\ pc' = [pc EXCEPT ![p] = "done"]
    /\ wrote' = [wrote EXCEPT ![p] = "ok"]
    /\ UNCHANGED <<now, entry, cancelled, m, key, val, err, hit, lead, invoked>>

\* variant: the write keeps an entry that is already there (SET NX)
SetOKFirstWins(p) ==
    /\ UNCHANGED notCache
    /\ pc[p] = "set"
    /\ store' = [store EXCEPT ![key[p]] =
                    IF store[key[p]].ok THEN store[key[p]]
                    ELSE [ok |-> TRUE, Payload |-> val[p], StoredAt |-> now]]
    /\ pc' = [pc EXCEPT ![p] = "done"]
    /\ wrote' = [wrote EXCEPT ![p] = "ok"]
    /\ UNCHANGED <<now, entry, cancelled, m, key, val, err, hit, lead, invoked>>

\* storeWithTTL succeeds: Store.Set builds the envelope, StoredAt: time.Now(),
\* and Redis replaces the entry with it; one step, taken when Redis executes
\* the write
SetOK(p) ==
    /\ UNCHANGED notCache
    /\ pc[p] = "set"
    /\ store' = [store EXCEPT ![key[p]] =
                    [ok |-> TRUE, Payload |-> val[p], StoredAt |-> now]]
    /\ pc' = [pc EXCEPT ![p] = "done"]
    /\ wrote' = [wrote EXCEPT ![p] = "ok"]
    /\ UNCHANGED <<now, entry, cancelled, m, key, val, err, hit, lead, invoked>>

\* variant: a failed store write fails the closure
SetFailPropagates(p) ==
    /\ UNCHANGED notCache
    /\ pc[p] = "set"
    /\ Complete(p, NoPayload, "store")
    /\ UNCHANGED <<now, entry, store, key, hit, lead, invoked>>

\* variant: a failed write drops the key
SetFailDeletes(p) ==
    /\ UNCHANGED notCache
    /\ pc[p] = "set"
    /\ store' = [store EXCEPT ![key[p]] = NoEntry]
    /\ pc' = [pc EXCEPT ![p] = "done"]
    /\ wrote' = [wrote EXCEPT ![p] = "failed"]
    /\ UNCHANGED <<now, entry, cancelled, m, key, val, err, hit, lead, invoked>>

\* storeWithTTL fails: the error is logged
SetFail(p) ==
    /\ UNCHANGED notCache
    /\ pc[p] = "set"
    /\ pc' = [pc EXCEPT ![p] = "done"]
    /\ wrote' = [wrote EXCEPT ![p] = "failed"]
    /\ UNCHANGED <<now, entry, cancelled, store, m, key, val, err, hit, lead, invoked>>

\* the closure returns (payload, nil)
Finish(p) ==
    /\ UNCHANGED notCache
    /\ pc[p] = "done"
    /\ Complete(p, val[p], "")
    /\ UNCHANGED <<now, entry, store, key, hit, lead, invoked>>

Next ==
    \/ Tick
    \/ \E w \in Workers : Cancel(w)
    \/ \E w \in Workers, req \in Requests : Reject(w, req)
    \/ \E w \in Workers, req \in Requests : Passthrough(w, req)
    \/ \E w \in Workers, req \in Requests : GetError(w, req)
    \/ \E w \in Workers, req \in Requests : GetFresh(w, req)
    \/ \E w \in Workers, req \in Requests : GetStale(w, req)
    \/ \E w \in Workers, req \in Requests : GetMiss(w, req)
    \/ \E p \in Procs : DoJoin(p)
    \/ \E p \in Procs : DoLead(p)
    \/ \E p \in Procs : FetchOK(p)
    \/ \E p \in Procs : FetchErr(p)
    \/ \E p \in Procs : SetOK(p)
    \/ \E p \in Procs : SetFail(p)
    \/ \E p \in Procs : Finish(p)

Spec == Init /\ [][Next]_vars

\* the configurations New is handed: thresholds at or above the TTL, and one
\* below it.  New takes cfg as it is
Configs ==
    { [BackgroundRefreshAfter |-> 0, CacheTTL |-> 2],
      [BackgroundRefreshAfter |-> 2, CacheTTL |-> 2],
      [BackgroundRefreshAfter |-> 3, CacheTTL |-> 2] }

\* a member constructed over an empty store
InitCfg ==
    /\ cfg \in Configs
    /\ InitLookups
    /\ \A k \in CacheKeys : store[k] = NoEntry

SpecCfg == InitCfg /\ [][Next]_vars


(***************************************************************************)
(* Target selection as a specification of its own.                         *)
(***************************************************************************)

\* New builds h.targets with ParseMemberTargets and fails when that fails; a
\* Handler that was not built by New has no targets
InitTarget ==
    /\ now = 0
    /\ store = [k \in CacheKeys |-> NoEntry]
    /\ m = [f \in FlightKeys |-> NoProc]
    /\ pc = [p \in Procs |-> IF p \in Workers THEN "idle" ELSE "free"]
    /\ key = [p \in Procs |-> NoKey]
    /\ val = [p \in Procs |-> NoPayload]
    /\ err = [p \in Procs |-> ""]
    /\ hit = [p \in Procs |-> ""]
    /\ lead = [p \in Procs |-> NoProc]
    /\ wrote = [p \in Procs |-> ""]
    /\ invoked = 0
    /\ cancelled = {}
    /\ entry = [w \in Workers |-> NoEntry]
    /\ \/ targets = <<>>
       \/ \E raw \in MemberClusters :
              /\ ParseMemberTargets(raw).err = ""
              /\ targets = ParseMemberTargets(raw).targets
    /\ calls = <<>>
    /\ HttpPinned /\ FanPinned /\ PoolPinned /\ CfgPinned

\* handleProxy -> pickTargetURL: chooseTarget on the inbound path and query
pickTargetURL(path, rawQuery) ==
    /\ Len(calls) < MaxCalls
    /\ calls' = Append(calls, [path |-> path, rawQuery |-> rawQuery,
                               res |-> chooseTarget(path, rawQuery)])
    /\ UNCHANGED targets
    /\ UNCHANGED notSel

\* fetchJSON as fetchUserPayload calls it: service "users", path
\* "/v1/users/" + userID, no params
fetchJSON(service, path) ==
    /\ Len(calls) < MaxCalls
    /\ LET basePath == IF path = <<>> THEN <<"/">> \o service
                       ELSE TrimRightSlash(<<"/">> \o service) \o <<"/">>
                                \o TrimLeftSlash(path)
       IN  calls' = Append(calls, [path |-> basePath, rawQuery |-> <<>>,
                                   res |-> chooseTarget(basePath, <<>>)])
    /\ UNCHANGED targets
    /\ UNCHANGED notSel

NextTarget ==
    \/ \E path \in InboundPaths, rawQuery \in InboundQueries :
           pickTargetURL(path, rawQuery)
    \/ \E userID \in UserIDs :
           fetchJSON(<<"u", "s", "e", "r", "s">>,
                     <<"/", "v", "1", "/", "u", "s", "e", "r", "s", "/">> \o userID)

SpecTarget == InitTarget /\ [][NextTarget]_vars

(***************************************************************************)
(* The handler on one request, as a specification of its own.              *)
(***************************************************************************)

\* New, then the arrival of one request
InitHTTP ==
    /\ request \in HttpRequests
    /\ hpc = "start"
    /\ resp = NoResp
    /\ outReq = <<>>
    /\ lookupKey = NoKey
    /\ resolved = NoURL
    /\ storeOps = 0
    /\ upCalls = 0
    /\ \E raw \in {<<DirectEntry>>, <<ClusterB>>} :
           targets = ParseMemberTargets(raw).targets
    /\ calls = <<>>
    /\ CachePinned
    /\ FanPinned /\ PoolPinned /\ CfgPinned

\* handleUserLookup / handleSearch: the 400 replies
HttpReject ==
    /\ hpc = "start"
    /\ Rejected(request)
    /\ resp' = respondJSON(resp, 400,
                  IF Route(request) = "user"
                  THEN <<"{\"error\":\"Invalid or missing userId\"}">>
                  ELSE <<"[]">>)
    /\ hpc' = "done"
    /\ UNCHANGED <<request, lookupKey, outReq, resolved, storeOps, upCalls>>
    /\ UNCHANGED notHttp

\* handleUserLookup / handleSearch enter readThroughCache, which reads the store
HttpLookup ==
    /\ hpc = "start"
    /\ Route(request) # "proxy"
    /\ ~Rejected(request)
    /\ hpc' = "lookup"
    /\ lookupKey' = KeyOf(request)
    /\ storeOps' = storeOps + 1
    /\ UNCHANGED <<request, resp, outReq, resolved, upCalls>>
    /\ UNCHANGED notHttp

\* readThroughCache returned a payload (from the store, or fetched)
HttpLookupOK(fetched) ==
    /\ hpc = "lookup"
    /\ resp' = respondCachedJSON(resp, <<"payload">>)
    /\ upCalls' = IF fetched THEN upCalls + 1 ELSE upCalls
    /\ storeOps' = IF fetched THEN storeOps + 1 ELSE storeOps
    /\ hpc' = "done"
    /\ UNCHANGED <<request, lookupKey, outReq, resolved>>
    /\ UNCHANGED notHttp

\* variant: a failed lookup is answered 502
HttpLookupFailGateway(e) ==
    /\ hpc = "lookup"
    /\ resp' = respondError(resp, 502, e)
    /\ upCalls' = IF e = "fetch" THEN upCalls + 1 ELSE upCalls
    /\ hpc' = "done"
    /\ UNCHANGED <<request, lookupKey, outReq, resolved, storeOps>>
    /\ UNCHANGED notHttp

\* readThroughCache returned an error: the store read failed, or the fetch did
HttpLookupFail(e) ==
    /\ hpc = "lookup"
    /\ resp' = respondError(resp, 500, e)
    /\ upCalls' = IF e = "fetch" THEN upCalls + 1 ELSE upCalls
    /\ hpc' = "done"
    /\ UNCHANGED <<request, lookupKey, outReq, resolved, storeOps>>
    /\ UNCHANGED notHttp

\* handleProxy: pickTargetURL fails
HttpResolveFail ==
    /\ hpc = "start"
    /\ Route(request) = "proxy"
    /\ chooseTarget(request.path, request.rawQuery).err # ""
    /\ resp' = respondError(resp, 502,
                            chooseTarget(request.path, request.rawQuery).err)
    /\ hpc' = "done"
    /\ UNCHANGED <<request, lookupKey, outReq, resolved, storeOps, upCalls>>
    /\ UNCHANGED notHttp

\* handleProxy: pickTargetURL returns the target and Forwarder.Do begins
HttpResolve ==
    /\ hpc = "start"
    /\ Route(request) = "proxy"
    /\ chooseTarget(request.path, request.rawQuery).err = ""
    /\ resolved' = chooseTarget(request.path, request.rawQuery).url
    /\ hpc' = "forward"
    /\ UNCHANGED <<request, lookupKey, resp, outReq, storeOps, upCalls>>
    /\ UNCHANGED notHttp

\* Forwarder.Do: the request is cloned and handed to Client.Do
HttpSend ==
    /\ hpc = "forward"
    /\ outReq' = Append(outReq, cloneRequestWithURL(request, resolved))
    /\ upCalls' = upCalls + 1
    /\ hpc' = "sent"
    /\ UNCHANGED <<request, lookupKey, resp, resolved, storeOps>>
    /\ UNCHANGED notHttp

\* Client.Do returns an error: Do returns it and handleProxy answers 502
HttpClientFail ==
    /\ hpc = "sent"
    /\ resp' = respondError(resp, 502, "client")
    /\ hpc' = "done"
    /\ UNCHANGED <<request, lookupKey, outReq, resolved, storeOps, upCalls>>
    /\ UNCHANGED notHttp

\* Client.Do returns a response: its headers without the hop-by-hop ones and
\* its status are written
HttpRelay(up) ==
    /\ hpc = "sent"
    /\ resp' = WriteHeader(
                  [resp EXCEPT !.hdr = delHopHeaders(copyHeaders(@, up.header))],
                  up.status)
    /\ hpc' = "stream"
    /\ UNCHANGED <<request, lookupKey, outReq, resolved, storeOps, upCalls>>
    /\ UNCHANGED notHttp

\* io.CopyBuffer copies the whole upstream body
HttpStreamOK ==
    /\ hpc = "stream"
    /\ resp' = Write(resp, <<"upstream body">>)
    /\ hpc' = "done"
    /\ UNCHANGED <<request, lookupKey, outReq, resolved, storeOps, upCalls>>
    /\ UNCHANGED notHttp

\* io.CopyBuffer fails, with part of the body written or none: Do returns the
\* error and handleProxy calls respondError
HttpStreamFail(partial) ==
    /\ hpc = "stream"
    /\ resp' = respondError(
                  IF partial THEN Write(resp, <<"upstream body, cut">>) ELSE resp,
                  502, "copy")
    /\ hpc' = "done"
    /\ UNCHANGED <<request, lookupKey, outReq, resolved, storeOps, upCalls>>
    /\ UNCHANGED notHttp

NextHTTP ==
    \/ HttpReject
    \/ HttpLookup
    \/ \E fetched \in BOOLEAN : HttpLookupOK(fetched)
    \/ \E e \in {"store", "fetch"} : HttpLookupFail(e)
    \/ HttpResolveFail
    \/ HttpResolve
    \/ HttpSend
    \/ HttpClientFail
    \/ \E up \in UpstreamResponses : HttpRelay(up)
    \/ HttpStreamOK
    \/ \E partial \in BOOLEAN : HttpStreamFail(partial)

SpecHTTP == InitHTTP /\ [][NextHTTP]_vars

(***************************************************************************)
(* The pool under concurrent callers, as a specification of its own.       *)
(***************************************************************************)

\* NewPool with 1 to 3 targets, and the cursor where earlier calls left it
InitPool ==
    /\ poolLen \in 1..3
    /\ cursor \in StartCursors
    /\ wraps = 0
    /\ observed = [c \in Callers |-> NotObserved]
    /\ picked = [c \in Callers |-> NotPicked]
    /\ CachePinned /\ SelPinned /\ HttpPinned /\ FanPinned /\ CfgPinned

\* Pool.Next, p.cursor.Add(1)-1: one atomic step
PoolAdd(c) ==
    /\ ~observed[c].seen
    /\ observed' = [observed EXCEPT ![c] =
                       [seen |-> TRUE, v |-> cursor, epoch |-> wraps]]
    /\ cursor' = Inc64(cursor)
    /\ wraps' = IF Inc64(cursor) = ZeroCursor THEN wraps + 1 ELSE wraps
    /\ UNCHANGED <<poolLen, picked>>
    /\ UNCHANGED notPool

\* Pool.Next, idx := int(...) % len(p.targets); return p.targets[idx]: the
\* index expression panics when idx is outside the slice
PoolPick(c) ==
    /\ observed[c].seen
    /\ ~picked[c].done
    /\ LET idx == PoolIndex(observed[c].v, poolLen)
       IN  picked' = [picked EXCEPT ![c] =
                        [done |-> TRUE, idx |-> idx,
                         panic |-> idx \notin 0..(poolLen - 1)]]
    /\ UNCHANGED <<poolLen, cursor, wraps, observed>>
    /\ UNCHANGED notPool

NextPool ==
    \/ \E c \in Callers : PoolAdd(c)
    \/ \E c \in Callers : PoolPick(c)

SpecPool == InitPool /\ [][NextPool]_vars

(***************************************************************************)
(* The search fan-out, as a state machine.  A runner is the goroutine of   *)
(* one search request; when its read finds a stale entry the request is    *)
(* answered at once and the runner goes on as the goroutine launchRefresh  *)
(* starts (bg).                                                            *)
(***************************************************************************)
\* what the store may hold when the member starts: an earlier search
\* payload, and under the avatar key of user 1 bytes that are not an
\* avatar payload
FanStoredEntries(k) ==
    IF k \in FanSearchKeys
    THEN { NoFanEntry, [ok |-> TRUE, Payload |-> SearchPayload(<<>>)] }
    ELSE IF k = avatarCacheKey(Sprintf(1))
    THEN { NoFanEntry, [ok |-> TRUE, Payload |-> GarbagePayload] }
    ELSE { NoFanEntry }

InitFan ==
    /\ run = [p \in Runners |-> NoRun]
    /\ fstore \in [FanKeys -> UNION {FanStoredEntries(k) : k \in FanKeys}]
    /\ \A k \in FanKeys : fstore[k] \in FanStoredEntries(k)
    /\ flights = [f \in FanFlightKeys |-> NoProc]
    /\ CachePinned /\ SelPinned /\ HttpPinned /\ PoolPinned /\ CfgPinned

\* search request p arrives: the requests are numbered in the order in
\* which they arrive
FanArrives(p) ==
    /\ run[p].pc = "idle"
    /\ \A o \in Runners : o < p => run[o].pc # "idle"

\* the key of the avatar lookup runner p is at
AvatarKeyAt(p) ==
    avatarCacheKey(Sprintf(run[p].contents[Len(run[p].final) + 1]))

\* handleSearch -> readThroughCache: h.cache.Get returns an error
FanGetError(p, q) ==
    /\ UNCHANGED notFan
    /\ FanArrives(p)
    /\ run' = [run EXCEPT ![p] = [@ EXCEPT !.pc = "ret", !.needle = q,
                  !.fkey = searchCacheKey(ToLower(q)),
                  !.status = 500, !.got = [err |-> "store", payload |-> NilPayload]]]
    /\ UNCHANGED <<fstore, flights>>

\* handleSearch -> readThroughCache: hit, not stale
FanGetFresh(p, q) ==
    /\ UNCHANGED notFan
    /\ FanArrives(p)
    /\ fstore[searchCacheKey(ToLower(q))].ok
    /\ run' = [run EXCEPT ![p] = [@ EXCEPT !.pc = "ret", !.needle = q,
                  !.fkey = searchCacheKey(ToLower(q)),
                  !.status = 200,
                  !.body = fstore[searchCacheKey(ToLower(q))].Payload]]
    /\ UNCHANGED <<fstore, flights>>

\* handleSearch -> readThroughCache: hit, stale: launchRefresh, and the
\* cached payload is returned; the runner goes on as the refresh goroutine
\* at sgroup.Do(key + ":refresh")
FanGetStale(p, q) ==
    /\ UNCHANGED notFan
    /\ FanArrives(p)
    /\ fstore[searchCacheKey(ToLower(q))].ok
    /\ LET k == searchCacheKey(ToLower(q))
           f == RefreshFlight(k)
       IN  /\ run' = [run EXCEPT ![p] = [@ EXCEPT
                         !.pc = IF flights[f] = NoProc THEN "fetch" ELSE "wait",
                         !.lead = flights[f],
                         !.bg = TRUE, !.needle = q, !.fkey = f,
                         !.status = 200, !.body = fstore[k].Payload]]
           /\ flights' = IF flights[f] = NoProc THEN [flights EXCEPT ![f] = p]
                         ELSE flights
    /\ UNCHANGED fstore

\* handleSearch -> readThroughCache: miss (no entry, or expired):
\* sgroup.Do(key) leads a new call or joins the one in flight
FanGetMiss(p, q) ==
    /\ UNCHANGED notFan
    /\ FanArrives(p)
    /\ LET f == searchCacheKey(ToLower(q))
       IN  /\ run' = [run EXCEPT ![p] = [@ EXCEPT
                         !.pc = IF flights[f] = NoProc THEN "fetch" ELSE "wait",
                         !.lead = flights[f],
                         !.needle = q, !.fkey = f]]
           /\ flights' = IF flights[f] = NoProc THEN [flights EXCEPT ![f] = p]
                         ELSE flights
    /\ UNCHANGED fstore

\* the end of a search call led by p with result g: the closure has
\* returned, the call is unregistered, the waiters are released and the
\* leader returns
EndSearchCall(p, g) ==
    /\ flights' = [flights EXCEPT ![run[p].fkey] = NoProc]
    /\ run' = [Deliver(run, p, "wait", "woken", g) EXCEPT ![p] =
                  [@ EXCEPT !.pc = "ret", !.got = g,
                            !.status = IF run[p].bg THEN @
                                       ELSE IF g.err # "" THEN 500 ELSE 200,
                            !.body = IF run[p].bg \/ g.err # "" THEN @
                                     ELSE g.payload]]

\* fetchSearchPayload: fetchJSON fails; the closure returns the error
FanSearchFail(p) ==
    /\ UNCHANGED notFan
    /\ run[p].pc = "fetch"
    /\ EndSearchCall(p, [err |-> "fetch", payload |-> NilPayload])
    /\ UNCHANGED fstore

\* fetchSearchPayload: fetchJSON returns contents cs
FanSearchOK(p, cs) ==
    /\ UNCHANGED notFan
    /\ run[p].pc = "fetch"
    /\ run' = [run EXCEPT ![p] = [@ EXCEPT
                  !.contents = cs, !.fetched = TRUE,
                  !.pc = IF cs = <<>> THEN "set" ELSE "loop"]]
    /\ UNCHANGED <<fstore, flights>>

\* lookupAvatarURL -> readThroughCache: h.cache.Get returns an error
AvatarGetError(p) ==
    /\ UNCHANGED notFan
    /\ run[p].pc = "loop"
    /\ run' = [run EXCEPT ![p] =
                  LoopRound(@, [err |-> "store", payload |-> NilPayload])]
    /\ UNCHANGED <<fstore, flights>>

\* lookupAvatarURL -> readThroughCache: hit; when the entry is stale,
\* launchRefresh starts a goroutine that leads the call key + ":refresh"
\* unless one is in flight
AvatarGetHit(p, stale) ==
    /\ UNCHANGED notFan
    /\ run[p].pc = "loop"
    /\ fstore[AvatarKeyAt(p)].ok
    /\ run' = [run EXCEPT ![p] =
                  LoopRound(@, [err |-> "", payload |-> fstore[AvatarKeyAt(p)].Payload])]
    /\ flights' =
          IF stale /\ flights[RefreshFlight(AvatarKeyAt(p))] = NoProc
          THEN [flights EXCEPT ![RefreshFlight(AvatarKeyAt(p))] =
                    AvatarRefresher(run[p].contents[Len(run[p].final) + 1])]
          ELSE flights
    /\ UNCHANGED fstore

\* lookupAvatarURL -> readThroughCache: miss: sgroup.Do(key) leads a new
\* call or joins the one in flight
AvatarGetMiss(p) ==
    /\ UNCHANGED notFan
    /\ run[p].pc = "loop"
    /\ LET f == AvatarKeyAt(p)
       IN  /\ run' = [run EXCEPT ![p] = [@ EXCEPT
                         !.pc = IF flights[f] = NoProc THEN "afetch" ELSE "await",
                         !.lead = flights[f]]]
           /\ flights' = IF flights[f] = NoProc THEN [flights EXCEPT ![f] = p]
                         ELSE flights
    /\ UNCHANGED fstore

\* the end of an avatar call led by p with result g
EndAvatarCall(p, g) ==
    /\ flights' = [flights EXCEPT ![AvatarKeyAt(p)] = NoProc]
    /\ run' = [Deliver(run, p, "await", "awoken", g) EXCEPT ![p] =
                  LoopRound(run[p], g)]

\* fetchAvatarPayload: fetchJSON fails
AvatarFetchFail(p) ==
    /\ UNCHANGED notFan
    /\ run[p].pc = "afetch"
    /\ EndAvatarCall(p, [err |-> "fetch", payload |-> NilPayload])
    /\ UNCHANGED fstore

\* fetchAvatarPayload succeeds; storeWithTTL stores the payload, or fails
\* and is logged
AvatarFetchOK(p, written) ==
    /\ UNCHANGED notFan
    /\ run[p].pc = "afetch"
    /\ LET id == run[p].contents[Len(run[p].final) + 1]
           g == [err |-> "", payload |-> AvatarPayload(ImageURL(id))]
       IN  /\ EndAvatarCall(p, g)
           /\ fstore' = IF written
                        THEN [fstore EXCEPT ![AvatarKeyAt(p)] =
                                 [ok |-> TRUE, Payload |-> g.payload]]
                        ELSE fstore

\* a waiter of an avatar call returns from sgroup.Do with the call's result
AvatarWake(p) ==
    /\ UNCHANGED notFan
    /\ run[p].pc = "awoken"
    /\ run' = [run EXCEPT ![p] = LoopRound(@, run[p].got)]
    /\ UNCHANGED <<fstore, flights>>

\* the goroutine of launchRefresh for an avatar: fetch, store, unregister
AvatarRefresh(id, fetchedOK, written) ==
    /\ UNCHANGED notFan
    /\ flights[RefreshFlight(avatarCacheKey(Sprintf(id)))] = AvatarRefresher(id)
    /\ flights' = [flights EXCEPT ![RefreshFlight(avatarCacheKey(Sprintf(id)))] = NoProc]
    /\ fstore' = IF fetchedOK /\ written
                 THEN [fstore EXCEPT ![avatarCacheKey(Sprintf(id))] =
                          [ok |-> TRUE, Payload |-> AvatarPayload(ImageURL(id))]]
                 ELSE fstore
    /\ UNCHANGED run

\* readThroughCache / launchRefresh closure after fetchSearchPayload
\* returned: a payload is stored (a failed write is logged), an error is
\* returned as it is
FanSet(p, written) ==
    /\ UNCHANGED notFan
    /\ run[p].pc = "set"
    /\ EndSearchCall(p, fetchResult(run[p]))
    /\ LET k == searchCacheKey(ToLower(run[p].needle))
       IN fstore' = IF written /\ fetchResult(run[p]).err = ""
                    THEN [fstore EXCEPT ![k] =
                             [ok |-> TRUE, Payload |-> fetchResult(run[p]).payload]]
                    ELSE fstore

\* a waiter of a search call returns from sgroup.Do with the call's result
FanWake(p) ==
    /\ UNCHANGED notFan
    /\ run[p].pc = "woken"
    /\ run' = [run EXCEPT ![p] = [@ EXCEPT
                  !.pc = "ret",
                  !.status = IF run[p].bg THEN @
                             ELSE IF run[p].got.err # "" THEN 500 ELSE 200,
                  !.body = IF run[p].bg \/ run[p].got.err # "" THEN @
                           ELSE run[p].got.payload]]
    /\ UNCHANGED <<fstore, flights>>

\* the goroutine of runner p ends: respondCachedJSON / respondError has
\* written the response, or the refresh goroutine returns
FanDone(p) ==
    /\ UNCHANGED notFan
    /\ run[p].pc = "ret"
    /\ run' = [run EXCEPT ![p] = [NoRun EXCEPT !.pc = "done"]]
    /\ UNCHANGED <<fstore, flights>>

\* what runner p may do once its request has arrived
RunnerStep(p) ==
    \/ FanDone(p)
    \/ FanSearchFail(p)
    \/ \E cs \in ContentLists : FanSearchOK(p, cs)
    \/ AvatarGetError(p)
    \/ \E stale \in BOOLEAN : AvatarGetHit(p, stale)
    \/ AvatarGetMiss(p)
    \/ AvatarFetchFail(p)
    \/ \E written \in BOOLEAN : AvatarFetchOK(p, written)
    \/ AvatarWake(p)
    \/ \E written \in BOOLEAN : FanSet(p, written)
    \/ FanWake(p)

RefresherStep(id) ==
    \E fetchedOK, written \in BOOLEAN : AvatarRefresh(id, fetchedOK, written)

NextFan ==
    \/ \E p \in Runners, q \in FanNeedles : FanGetError(p, q)
    \/ \E p \in Runners, q \in FanNeedles : FanGetFresh(p, q)
    \/ \E p \in Runners, q \in FanNeedles : FanGetStale(p, q)
    \/ \E p \in Runners, q \in FanNeedles : FanGetMiss(p, q)
    \/ \E p \in Runners : RunnerStep(p)
    \/ \E id \in ContentIDs : RefresherStep(id)

SpecFan == InitFan /\ [][NextFan]_vars

\* the Go scheduler runs a goroutine that can take a step, and every
\* store call and fetch returns: some step of a runner that has arrived,
\* or of a refresh goroutine, is eventually taken while one is possible
FanProgress ==
    \/ \E p \in Runners : RunnerStep(p)
    \/ \E id \in ContentIDs : RefresherStep(id)

SpecFanLive == InitFan /\ [][NextFan]_vars /\ WF_vars(FanProgress)


(***************************************************************************)
(* Properties.                                                             *)
(***************************************************************************)
\* a process is inside sgroup.Do, leading a call or waiting on one
InDo(p) == pc[p] \in {"fetch", "set", "done", "wait"}
\* a process is executing the closure it leads
Leading(p) == pc[p] \in {"fetch", "set", "done"}
\* sgroup.Do has returned to the process
Returned(p) == pc[p] \in {"ret", "exit"}

\* C1 as stated: two overlapping readThroughCache calls for the same absent
\* key are served by one invocation of the fetch closure. Requests are numbered
\* by arrival: when w2 has looked the key up and missed and has not yet reached
\* the registry, and w1, which arrived after it, has already returned from the
\* fetch it led, w2 does not invoke the fetch closure again.
C1_ExactlyOnce ==
    [][ \A w1, w2 \in Workers :
          ( /\ w2 < w1 /\ key[w1] = key[w2]
            /\ hit[w1] = "miss" /\ hit[w2] = "miss"
            /\ pc[w1] = "ret" /\ lead[w1] = w1 /\ err[w1] = ""
            /\ pc[w2] = "do" )
          => pc'[w2] # "fetch" ]_vars

\* C1 amended: every caller that is inside sgroup.Do is merged into the one call
\* registered under its flight key, each call invokes the fetch closure exactly
\* once, and all callers merged into one call return the identical payload and
\* error.
C1_Coalesced ==
    /\ \A w \in Workers : InDo(w) =>
          m[FlightOf(w)] = lead[w] /\ Leading(lead[w])
    /\ invoked = Cardinality({p \in Procs : lead[p] = p})
    /\ \A w1, w2 \in Workers :
          (Returned(w1) /\ Returned(w2) /\ lead[w1] # NoProc /\ lead[w1] = lead[w2])
          => val[w1] = val[w2] /\ err[w1] = err[w2]

\* C1 witness: two overlapping callers that missed returned the same fetched
\* payload of one invocation.
C1_Witness ==
    \E w1, w2 \in Workers :
        /\ w1 # w2
        /\ hit[w1] = "miss" /\ hit[w2] = "miss"
        /\ pc[w1] = "ret" /\ pc[w2] = "ret"
        /\ lead[w1] = w1 /\ lead[w2] = w1
        /\ val[w1] # NoPayload /\ val[w2] = val[w1]
        /\ invoked = 1

\* C2: for every key at most one foreground invocation of the fetch closure is
\* in progress, and at most one background-refresh invocation.
C2_OneInFlight ==
    \A k \in CacheKeys :
        /\ Cardinality({w \in Workers : key[w] = k /\ Leading(w)}) <= 1
        /\ Cardinality({r \in Refreshers : key[r] = k /\ Leading(r)}) <= 1

\* C2 witness: a foreground fetch and a background refresh of the same key are
\* in progress at once.
C2_Witness ==
    \E k \in CacheKeys, w \in Workers, r \in Refreshers :
        /\ key[w] = k /\ pc[w] = "fetch"
        /\ key[r] = k /\ pc[r] = "fetch"

\* C3: a foreground call of readThroughCache(key) that returns a payload was
\* not merged into a refresh flight, and the payload was produced by a fetch
\* for that key.
C3_Disjoint ==
    \A w \in Workers :
        (pc[w] = "ret" /\ err[w] = "" /\ hit[w] \notin {"bad", "proxy"})
        => lead[w] \notin Refreshers /\ val[w].k = key[w]

\* C4: the step in which a fetch fails writes nothing to the store, issues no
\* Set, hands the error to the leader and to every merged waiter, and leaves
\* no call registered, so that the next lookup starts a new fetch.
C4_NoNegativeCaching ==
    [][ \A p \in Procs :
          (pc[p] = "fetch" /\ pc'[p] # "fetch" /\ pc'[p] # "set")
          => /\ store' = store
             /\ m'[FlightOf(p)] = NoProc
             /\ \A q \in WaitersOf(p) \cup {p} :
                   /\ pc'[q] = AfterDo(q)
                   /\ err'[q] = "fetch"
                   /\ val'[q] = NoPayload
                   /\ wrote'[q] = "" ]_vars

\* C4 witness: a fetch failed and left the key absent; a later lookup of the
\* key fetched again and stored a valid entry.
C4_Witness ==
    \E w1, w2 \in Workers :
        /\ key[w1] = key[w2]
        /\ pc[w1] = "ret" /\ err[w1] = "fetch" /\ lead[w1] = w1
        /\ w1 < w2 /\ hit[w2] = "miss" /\ lead[w2] = w2
        /\ pc[w2] = "ret" /\ err[w2] = ""
        /\ store[key[w2]].ok /\ store[key[w2]].Payload = val[w2]

\* C5: a lookup that reads a stale entry returns its payload in that very step,
\* before the refresh it launched has taken any step (no registry join, no
\* fetch, no store write), and a caller that read a stale entry is never
\* waiting, whatever becomes of the refresh.
C5_StaleNoWait ==
    /\ [](\A w \in Workers : hit[w] = "stale" => pc[w] = "ret" /\ err[w] = "")
    /\ [][ \A w \in Workers :
             (hit[w] = "" /\ hit'[w] = "stale")
             => /\ pc'[w] = "ret"
                /\ Get(key'[w]).ok
                /\ now - Get(key'[w]).StoredAt > BackgroundRefreshAfter
                /\ val'[w] = Get(key'[w]).Payload
                /\ pc'[RefresherOf(w)] = "do"
                /\ key'[RefresherOf(w)] = key'[w]
                /\ store' = store /\ m' = m /\ invoked' = invoked ]_vars

\* C5 witness: the caller holds the stale payload while the refresh it
\* launched is still fetching.
C5_Witness ==
    \E w \in Workers :
        /\ hit[w] = "stale" /\ pc[w] = "ret"
        /\ val[w] = InitEntry(key[w]).Payload
        /\ pc[RefresherOf(w)] = "fetch"

\* C6 as stated: of the refresh tasks spawned by overlapping reads of the same
\* stale entry only one invokes the fetch closure: when the task of w2 has not
\* yet reached the registry, and the task of w1, spawned after it by a read of
\* the same stale payload, has already completed the fetch it led, the task of
\* w2 does not invoke the fetch closure again.
C6_ExactlyOneRefresh ==
    [][ \A w1, w2 \in Workers :
          ( /\ w2 < w1 /\ key[w1] = key[w2]
            /\ hit[w1] = "stale" /\ hit[w2] = "stale" /\ val[w1] = val[w2]
            /\ pc[RefresherOf(w1)] = "exit"
            /\ lead[RefresherOf(w1)] = RefresherOf(w1)
            /\ pc[RefresherOf(w2)] = "do" )
          => pc'[RefresherOf(w2)] # "fetch" ]_vars

\* C6 amended: every refresh task that is inside sgroup.Do is merged into the
\* one call registered under the key's refresh identity, so the refresh tasks
\* of a key that are in flight together share one invocation; a task that
\* joined a registered call invokes nothing (invocations are made by leaders
\* only, one each).
C6_RefreshDedup ==
    /\ \A r \in Refreshers : InDo(r) =>
          m[FlightOf(r)] = lead[r] /\ Leading(lead[r])
    /\ \A r \in Refreshers : pc[r] = "wait" => lead[r] # r
    /\ \A r1, r2 \in Refreshers :
          (r1 # r2 /\ key[r1] = key[r2] /\ InDo(r1) /\ InDo(r2))
          => lead[r1] = lead[r2]
    /\ Cardinality({p \in Procs : lead[p] = p}) = invoked

\* C6 witness: the refresh tasks of two reads of one stale entry are merged: one
\* fetches, the other waits on it.
C6_Witness ==
    \E w1, w2 \in Workers :
        /\ w1 # w2 /\ key[w1] = key[w2]
        /\ hit[w1] = "stale" /\ hit[w2] = "stale" /\ val[w1] = val[w2]
        /\ pc[RefresherOf(w1)] = "fetch" /\ pc[RefresherOf(w2)] = "wait"
        /\ lead[RefresherOf(w2)] = RefresherOf(w1)

\* C7: a lookup that finds an entry of age <= BackgroundRefreshAfter returns its
\* payload without invoking the fetch closure, starting a refresh, touching the
\* registry or writing the store.
C7_FreshHit ==
    [][ \A w \in Workers :
          ( /\ hit[w] = "" /\ hit'[w] \notin {"", "error", "bad", "proxy"}
            /\ Get(key'[w]).ok
            /\ now - Get(key'[w]).StoredAt <= BackgroundRefreshAfter )
          => /\ hit'[w] = "fresh"
             /\ pc'[w] = "ret"
             /\ val'[w] = Get(key'[w]).Payload
             /\ err'[w] = ""
             /\ \A q \in Procs \ {w} : pc'[q] = pc[q]
             /\ store' = store /\ m' = m /\ invoked' = invoked
             /\ lead' = lead /\ wrote' = wrote ]_vars

\* C7 witness: a fresh hit on an entry whose age equals the threshold.
C7_Witness ==
    \E w \in Workers :
        /\ hit[w] = "fresh" /\ pc[w] = "ret"
        /\ store[key[w]].ok /\ val[w] = store[key[w]].Payload
        /\ now - store[key[w]].StoredAt = BackgroundRefreshAfter
        /\ pc[RefresherOf(w)] = "free"

\* C8: a lookup whose store Get fails returns that error; it never enters the
\* registry, invokes no fetch, starts no refresh and changes neither the store
\* nor the registry.
C8_StoreReadError ==
    /\ [](\A w \in Workers : hit[w] = "error" =>
             /\ pc[w] = "ret" /\ err[w] = "store" /\ val[w] = NoPayload
             /\ lead[w] = NoProc /\ pc[RefresherOf(w)] = "free")
    /\ [][ \A w \in Workers :
             (hit[w] = "" /\ hit'[w] = "error")
             => /\ store' = store /\ m' = m /\ invoked' = invoked
                /\ \A q \in Procs \ {w} : pc'[q] = pc[q] ]_vars

\* C8 witness: a store read error was returned for a key that the store holds.
C8_Witness ==
    \E w \in Workers :
        /\ hit[w] = "error" /\ pc[w] = "ret" /\ err[w] = "store"
        /\ store[key[w]].ok

\* C9: a store Set that fails (the call leaves storeWithTTL and the store is as
\* it was) fails nothing: the closure goes on to return the fetched payload,
\* and the call then hands that payload, without error, to the leader and to
\* every merged waiter and leaves the registry, so that a later miss fetches
\* again.
C9_WriteFailureSwallowed ==
    /\ [](\A p \in Procs : (wrote[p] = "failed" /\ Returned(p)) =>
             err[p] = "" /\ val[p] # NoPayload /\ val[p].k = key[lead[p]])
    /\ [][ \A p \in Procs :
             /\ (pc[p] = "set" /\ pc'[p] # "set" /\ store' = store)
                => /\ pc'[p] = "done"
                   /\ wrote'[p] = "failed"
                   /\ val'[p] = val[p] /\ err'[p] = ""
                   /\ \A q \in WaitersOf(p) : pc'[q] = "wait"
             /\ (pc[p] = "done" /\ wrote[p] = "failed" /\ pc'[p] # "done")
                => /\ m'[FlightOf(p)] = NoProc
                   /\ store' = store
                   /\ \A q \in WaitersOf(p) \cup {p} :
                         /\ pc'[q] = AfterDo(q)
                         /\ err'[q] = ""
                         /\ val'[q] = val[p] ]_vars

\* C9 witness: the Set failed, the key is still absent, and the leader and a
\* merged waiter both hold the fetched payload without error.
C9_Witness ==
    \E w1, w2 \in Workers :
        /\ w1 # w2 /\ lead[w1] = w1 /\ lead[w2] = w1
        /\ pc[w1] = "ret" /\ pc[w2] = "ret"
        /\ wrote[w1] = "failed" /\ wrote[w2] = "failed"
        /\ err[w1] = "" /\ err[w2] = ""
        /\ val[w1] # NoPayload /\ val[w2] = val[w1]
        /\ ~store[key[w1]].ok

\* C10: a caller that returns a fetched payload from the miss path does so
\* after the store Set of its call was attempted and has returned.
C10_WriteBeforeReturn ==
    \A w \in Workers :
        (pc[w] = "ret" /\ hit[w] = "miss" /\ err[w] = "")
        => /\ wrote[w] \in {"ok", "failed"}
           /\ val[w] # NoPayload
           /\ wrote[lead[w]] = wrote[w]

\* C10 witness: a merged waiter returned the payload of a call whose Set
\* succeeded.
C10_Witness ==
    \E w \in Workers :
        /\ pc[w] = "ret" /\ hit[w] = "miss" /\ err[w] = ""
        /\ lead[w] \in Workers \ {w}
        /\ wrote[w] = "ok"
        /\ store[key[w]].ok /\ store[key[w]].Payload = val[w]

\* C11: a request that read a stale entry has its context cancelled (at the
\* latest when its handler returns), and the refresh it launched goes on
\* regardless: the refresh's fetch can still succeed and its store write can
\* still be made, because neither runs on a context derived from the
\* request's.
C11_RefreshSurvivesCancel ==
    \A w \in Workers :
        hit[w] = "stale" =>
            /\ w \in cancelled
            /\ ~Aborted(RefresherOf(w))
            /\ pc[RefresherOf(w)] = "fetch" => ENABLED FetchOK(RefresherOf(w))
            /\ pc[RefresherOf(w)] = "set" => ENABLED SetOK(RefresherOf(w))

\* C11 witness: the triggering request has returned and its context is
\* cancelled; the refresh it launched then fetched, wrote the store and ended
\* without error.
C11_Witness ==
    \E w \in Workers :
        /\ hit[w] = "stale" /\ pc[w] = "ret" /\ w \in cancelled
        /\ pc[RefresherOf(w)] = "exit" /\ lead[RefresherOf(w)] = RefresherOf(w)
        /\ err[RefresherOf(w)] = "" /\ wrote[RefresherOf(w)] = "ok"
        /\ store[key[w]].Payload = val[RefresherOf(w)]
        /\ val[w] # val[RefresherOf(w)]

C13_RefreshCompletes ==
    [][ /\ \A w \in Workers :
             ( /\ pc[RefresherOf(w)] = "set" /\ pc'[RefresherOf(w)] # "set"
               /\ store' # store )
             => /\ store'[key[w]] =
                      [ok |-> TRUE, Payload |-> val[RefresherOf(w)], StoredAt |-> now]
                /\ entry[w].ok /\ entry[w].StoredAt < store'[key[w]].StoredAt
                /\ entry[w].Payload # store'[key[w]].Payload
                /\ Get(key[w])'.Payload = val[RefresherOf(w)]
                /\ \A k \in CacheKeys \ {key[w]} : store'[k] = store[k]
        /\ \A w \in Workers :
             (hit[w] = "" /\ hit'[w] \in {"fresh", "stale"})
             => /\ store[key'[w]].ok
                /\ val'[w] = store[key'[w]].Payload
                /\ entry'[w] = store[key'[w]]
        /\ \A w \in Workers : pc[w] = "idle" /\ pc'[w] # "idle" => store' = store
      ]_vars

\* C13 witness: a refresh fetched and wrote, and a later read of the key
\* returned the refreshed payload from an entry with a later StoredAt.
C13_Witness ==
    \E w1, w2 \in Workers :
        /\ hit[w1] = "stale" /\ key[w2] = key[w1]
        /\ lead[RefresherOf(w1)] = RefresherOf(w1)
        /\ wrote[RefresherOf(w1)] = "ok"
        /\ hit[w2] \in {"fresh", "stale"} /\ pc[w2] = "ret"
        /\ val[w2] = val[RefresherOf(w1)] /\ val[w2] # val[w1]
        /\ entry[w2].StoredAt > entry[w1].StoredAt

\* C14: the step in which a background refresh's fetch fails leaves the store
\* as it was and hands an error to no request; the refresh ends, and a read
\* that then finds the entry stale launches a refresh again.
C14_RefreshFailureSilent ==
    [][ /\ \A r \in Refreshers :
             (pc[r] = "fetch" /\ pc'[r] = "exit")
             => /\ store' = store
                /\ \A w \in Workers : err'[w] = err[w]
                /\ m'[FlightOf(r)] = NoProc
        /\ \A w \in Workers :
             (hit[w] = "" /\ hit'[w] = "stale") => pc'[RefresherOf(w)] = "do"
      ]_vars

\* C15: a call is in the registry only while its closure is executing: when
\* no fetch is in progress the registry is empty, the step in which a closure
\* returns removes its call, and a caller joins only a call whose closure is
\* still executing, so a miss that comes after a flight completed invokes the
\* fetch closure anew.
C15_RegistryCleanup ==
    /\ [](\A f \in FlightKeys :
             m[f] # NoProc => Leading(m[f]) /\ FlightOf(m[f]) = f)
    /\ []((\A p \in Procs : ~Leading(p)) => \A f \in FlightKeys : m[f] = NoProc)
    /\ [][ /\ \A p \in Procs :
                (Leading(p) /\ ~Leading(p)') => m'[FlightOf(p)] = NoProc
           /\ \A p \in Procs :
                (pc[p] = "do" /\ pc'[p] = "wait")
                => /\ lead'[p] = m[FlightOf(p)]
                   /\ Leading(m[FlightOf(p)])
                   /\ pc'[m[FlightOf(p)]] = pc[m[FlightOf(p)]]
           /\ \A p \in Procs :
                (pc[p] = "do" /\ m[FlightOf(p)] = NoProc /\ pc'[p] # "do")
                => pc'[p] = "fetch" /\ lead'[p] = p /\ invoked' = invoked + 1
         ]_vars

\* C15 witness: a flight completed, the registry is empty, and a later miss of
\* the same key led an invocation of its own and got its own payload.
C15_Witness ==
    \E w1, w2 \in Workers :
        /\ w1 < w2 /\ key[w1] = key[w2]
        /\ hit[w1] = "miss" /\ hit[w2] = "miss"
        /\ lead[w1] = w1 /\ lead[w2] = w2
        /\ pc[w1] = "ret" /\ pc[w2] = "ret"
        /\ err[w2] = "" /\ val[w2].n = w2
        /\ \A f \in FlightKeys : m[f] = NoProc

\* C16: every store entry is absent or holds, under key k, the payload that
\* one successful invocation of the fetch closure for k returned (or the
\* payload the store held at start); a successful Set replaces whatever is
\* under the key, so after racing writes the entry is that of the later Set.
C16_StoreValid ==
    /\ [](\A k \in CacheKeys :
             store[k].ok =>
                /\ store[k].Payload.k = k
                /\ store[k].StoredAt <= now
                /\ \/ store[k] = InitEntry(k)
                   \/ \E p \in Procs :
                        /\ lead[p] = p /\ key[p] = k /\ wrote[p] = "ok"
                        /\ store[k].Payload = [k |-> k, n |-> p])
    /\ [][ \A p \in Procs :
             (pc[p] = "set" /\ pc'[p] = "done" /\ wrote'[p] = "ok")
             => store'[key[p]].Payload = val[p] ]_vars

\* C16 witness: a foreground fetch and a background refresh of one key were
\* in flight together and both wrote; the entry is the refresh's, whose Set
\* came later.
C16_Witness ==
    \E w \in Workers, r \in Refreshers :
        /\ key[w] = key[r]
        /\ pc[w] = "done" /\ wrote[w] = "ok"
        /\ pc[r] = "done" /\ wrote[r] = "ok"
        /\ store[key[r]].Payload = val[r]
        /\ val[w] # val[r]

\* C17: no step removes a store entry, and the store changes only in the step
\* in which the Set of a flight that fetched successfully for key k writes
\* that flight's payload under k; a passed-through request, a rejected request
\* and a fresh hit leave the store as it was.
C17_NeverDeletes ==
    [][ /\ \A k \in CacheKeys : store[k].ok => store'[k].ok
        /\ store' # store =>
             \E p \in Procs :
                /\ pc[p] = "set" /\ pc'[p] = "done"
                /\ val[p] = [k |-> key[p], n |-> p]
                /\ store'[key[p]].Payload = val[p]
                /\ \A k \in CacheKeys \ {key[p]} : store'[k] = store[k]
        /\ \A w \in Workers :
             (hit[w] = "" /\ hit'[w] \in {"proxy", "bad", "fresh"})
             => store' = store ]_vars

\* C17 witness: a passed-through request and a request whose miss-path Set
\* wrote the store.
C17_Witness ==
    \E w1, w2 \in Workers :
        /\ hit[w1] = "proxy" /\ pc[w1] = "ret"
        /\ hit[w2] = "miss" /\ lead[w2] = w2 /\ wrote[w2] = "ok"
        /\ store[key[w2]].Payload = val[w2]

\* C18: chooseTarget picks targets[FNV-1a-32(key) mod N], where key is the
\* path followed by "?" and the raw query when the query is non-empty: with
\* an empty list every call fails with the no-targets error and yields no
\* URL; with N > 0 targets the picked index lies in 0..N-1, it is the
\* published FNV-1a value of the key modulo N (0x70D2182D for "/a",
\* 0x1FC83DDC for "/a?b", 0x0DD7CF51 for "/a/b?x=1"), calls with equal keys
\* pick the same index, and calls with equal path and query return the same
\* result whatever was called in between.
C18_SelectorDeterministic ==
    \A i \in 1..Len(calls) :
        LET c == calls[i]
            N == Len(targets)
            k == c.path \o (IF c.rawQuery = <<>> THEN <<>>
                            ELSE <<"?">> \o c.rawQuery)
        IN  /\ N = 0 => c.res.err = "no-targets" /\ c.res.url = NoURL
            /\ N > 0 => c.res.idx \in 0..(N - 1) /\ c.res.err # "no-targets"
            /\ (N > 0 /\ k = <<"/", "a">>) => c.res.idx = 1892816941 % N
            /\ (N > 0 /\ k = <<"/", "a", "?", "b">>) => c.res.idx = 533216732 % N
            /\ (N > 0 /\ k = <<"/", "a", "/", "b", "?", "x", "=", "1">>)
                   => c.res.idx = 232247121 % N
            /\ \A j \in 1..Len(calls) :
                   LET d  == calls[j]
                       kd == d.path \o (IF d.rawQuery = <<>> THEN <<>>
                                        ELSE <<"?">> \o d.rawQuery)
                   IN  /\ k = kd => c.res.idx = d.res.idx
                       /\ (c.path = d.path /\ c.rawQuery = d.rawQuery)
                              => c.res = d.res

\* two calls with the same path and query on a list of three targets, both
\* picking the third
C18_Witness ==
    /\ Len(targets) = 3
    /\ Len(calls) = 2
    /\ calls[1].path = <<"/", "a">> /\ calls[1].rawQuery = <<"b">>
    /\ calls[2].path = <<"/", "a">> /\ calls[2].rawQuery = <<"b">>
    /\ calls[1].res.idx = 2 /\ calls[2].res.idx = 2
    /\ calls[2].res.err = ""

\* C19: for every Static target, including one whose base URL has a
\* non-empty path, the resolved URL's path is the base path followed by the
\* request path with exactly one slash at the join, and its query is the
\* inbound raw query unchanged.  (Stated for request paths that begin with
\* exactly one slash; the base path carries no trailing slash.)
C19_StaticJoin ==
    \A i \in 1..Len(calls) :
        LET c == calls[i]
        IN  (/\ Len(targets) > 0
             /\ targets[c.res.idx + 1].Kind = "Static"
             /\ c.path # <<>> /\ c.path[1] = "/"
             /\ (Len(c.path) > 1 => c.path[2] # "/"))
            => /\ c.res.err = ""
               /\ c.res.url.Path = targets[c.res.idx + 1].Base.Path \o c.path
               /\ c.res.url.RawQuery = c.rawQuery

\* C20: on a Direct target, a path "/" seg rest with a non-empty first
\* segment seg resolves to scheme https, host seg ".roblox.com", path rest
\* ("/" when nothing remains) and the raw query unchanged; a path without a
\* first segment (empty, "/", or beginning with "//") fails with the
\* bad-path error and yields no URL.
C20_DirectResolution ==
    \A i \in 1..Len(calls) :
        LET c    == calls[i]
            p    == c.path
            \* the place of the slash that ends the first segment
            stop == IF \E j \in 2..Len(p) : p[j] = "/"
                    THEN CHOOSE j \in 2..Len(p) :
                             p[j] = "/" /\ \A l \in 2..(j - 1) : p[l] # "/"
                    ELSE Len(p) + 1
            seg  == SubSeq(p, 2, stop - 1)
            rest == SubSeq(p, stop, Len(p))
        IN  (Len(targets) > 0 /\ targets[c.res.idx + 1].Kind = "Direct")
            => IF p = <<>> \/ p = <<"/">> \/ (p[1] = "/" /\ p[2] = "/")
               THEN c.res.err = "bad-path" /\ c.res.url = NoURL
               ELSE /\ p[1] = "/"
                    /\ c.res.err = ""
                    /\ c.res.url.Scheme = "https"
                    /\ c.res.url.Host = seg \o robloxSuffix
                    /\ c.res.url.Path = (IF rest = <<>> THEN <<"/">> ELSE rest)
                    /\ c.res.url.RawQuery = c.rawQuery

\* a Direct target resolved a path of three segments with a query, and
\* refused a path whose first segment is empty
C20_Witness ==
    /\ Len(calls) = 2
    /\ Len(targets) > 0
    /\ targets[calls[1].res.idx + 1].Kind = "Direct"
    /\ calls[1].path = <<"/", "b", "/", "a", "/", "x">>
    /\ calls[1].rawQuery = <<"x", "=", "1">>
    /\ calls[1].res.url.Host = <<"b">> \o robloxSuffix
    /\ calls[1].res.url.Path = <<"/", "a", "/", "x">>
    /\ targets[calls[2].res.idx + 1].Kind = "Direct"
    /\ calls[2].path = <<"/", "/", "b">>
    /\ calls[2].res.err = "bad-path"

\* C21 as stated, on the parameters as received: a non-empty userId of digits
\* only is looked up under "roblox:user:<id>", a non-empty userId with a
\* non-digit gets 400 and the userId error body, otherwise a non-empty search
\* of length >= 3 is looked up under "roblox:search:<lowercased query>" and a
\* shorter non-empty one gets 400 and [], otherwise the request is passed
\* through; a request answered 400 makes no store access and no upstream
\* call.
C21_DispatchAsReceived ==
    LET u == request.userId
        s == request.search
    IN  hpc \notin {"off", "start"} =>
          IF u # <<>> /\ \A i \in 1..Len(u) : u[i] \in Digits
          THEN lookupKey = userPrefix \o u
          ELSE IF u # <<>>
          THEN /\ resp.wh = <<400>>
               /\ resp.body = << <<"{\"error\":\"Invalid or missing userId\"}">> >>
          ELSE IF s # <<>> /\ Len(s) >= 3
          THEN lookupKey = searchPrefix \o ToLower(s)
          ELSE IF s # <<>>
          THEN resp.wh = <<400>> /\ resp.body = << <<"[]">> >>
          ELSE lookupKey = NoKey /\ StatusOf(resp) # 400

\* C21 on the parameters with surrounding white space trimmed and lengths in
\* bytes: exactly one of the three paths is taken, tested in the order
\* userId, search, passthrough, and a request answered 400 makes no store
\* access and no upstream call.
C21_Dispatch ==
    LET u == TrimSpace(request.userId)
        s == TrimSpace(request.search)
        lookedUp == /\ hpc \in {"lookup", "done"}
                    /\ storeOps >= 1
                    /\ StatusOf(resp) \in {0, 200, 500}
                    /\ outReq = <<>>
        refused  == /\ hpc = "done"
                    /\ resp.wh = <<400>>
                    /\ lookupKey = NoKey
                    /\ storeOps = 0 /\ upCalls = 0 /\ outReq = <<>>
    IN  hpc \notin {"off", "start"} =>
          IF u # <<>> /\ \A i \in 1..Len(u) : u[i] \in Digits
          THEN lookedUp /\ lookupKey = userPrefix \o u
          ELSE IF u # <<>>
          THEN /\ refused
               /\ resp.body = << <<"{\"error\":\"Invalid or missing userId\"}">> >>
          ELSE IF s # <<>> /\ ByteLen(s) >= 3
          THEN lookedUp /\ lookupKey = searchPrefix \o ToLower(s)
          ELSE IF s # <<>>
          THEN refused /\ resp.body = << <<"[]">> >>
          ELSE /\ lookupKey = NoKey
               /\ storeOps = 0
               /\ StatusOf(resp) # 400
               /\ hpc \in {"forward", "sent", "stream", "done"}

\* a userId with surrounding blanks was looked up and answered 200, although
\* a search parameter was present too
C21_Witness ==
    /\ hpc = "done"
    /\ request.userId = <<" ", "7", " ">>
    /\ lookupKey = userPrefix \o <<"7">>
    /\ resp.wh = <<200>>

\* C22 as stated: the client receives status 502 for every routing error
\* (and nothing was sent upstream), 500 for every failed store read or fetch
\* of a lookup, and 502 for every forwarding failure of a passthrough.
C22_EveryFailureMapped ==
    \A i \in 1..Len(resp.body) :
        LET b == resp.body[i]
        IN  (Len(b) = 3 /\ b[1] = "{\"error\":\"") =>
              /\ b[2] \in {"no-targets", "bad-path"}
                    => StatusOf(resp) = 502 /\ outReq = <<>> /\ upCalls = 0
              /\ b[2] \in {"store", "fetch"} => StatusOf(resp) = 500
              /\ b[2] \in {"client", "copy"} => StatusOf(resp) = 502

\* C22 with the forwarding failures told apart: a routing error of the
\* passthrough gets 502 and nothing is sent upstream, a failed store read or
\* fetch of a lookup gets 500, a forwarding failure before the upstream
\* status was written gets 502, and a failure while the body is streamed
\* leaves the client with the upstream status already written.
C22_ErrorStatusMapping ==
    /\ [](\A i \in 1..Len(resp.body) :
            LET b == resp.body[i]
            IN  (Len(b) = 3 /\ b[1] = "{\"error\":\"") =>
                  /\ b[2] \in {"no-targets", "bad-path"}
                        => resp.wh = <<502>> /\ outReq = <<>> /\ upCalls = 0
                  /\ b[2] \in {"store", "fetch"} => resp.wh = <<500>>
                  /\ b[2] = "client" => resp.wh = <<502>>
                  /\ b[2] = "copy" => Len(resp.wh) = 2 /\ resp.wh[2] = 502)
    /\ [][ /\ (hpc = "sent" /\ hpc' = "stream")
                => \E up \in UpstreamResponses : StatusOf(resp') = up.status
            /\ (hpc = "stream" /\ hpc' = "done")
                => StatusOf(resp') = StatusOf(resp) ]_vars

\* a passthrough whose upstream answered 200 and whose body copy then failed
C22_Witness ==
    /\ hpc = "done"
    /\ resp.wh = <<200, 502>>
    /\ resp.body[Len(resp.body)] = <<"{\"error\":\"", "copy", "\"}">>
    /\ Len(outReq) = 1

\* C24 as stated: no hop-by-hop header is among the outbound request's
\* headers and every other inbound header is copied; no hop-by-hop header is
\* among the headers relayed to the client and every other upstream header
\* is copied.
C24_AllOthersCopied ==
    /\ [](\A i \in 1..Len(outReq) : \A n \in HeaderNames :
            IF n \in {"Connection", "Proxy-Connection", "Keep-Alive",
                      "Proxy-Authenticate", "Proxy-Authorization", "Te",
                      "Trailer", "Transfer-Encoding", "Upgrade"}
            THEN outReq[i].header[n] = <<>>
            ELSE request.header[n] # <<>>
                    => outReq[i].header[n] = request.header[n])
    /\ [][(hpc = "sent" /\ hpc' = "stream") =>
            \E up \in UpstreamResponses : \A n \in HeaderNames :
                IF n \in {"Connection", "Proxy-Connection", "Keep-Alive",
                          "Proxy-Authenticate", "Proxy-Authorization", "Te",
                          "Trailer", "Transfer-Encoding", "Upgrade"}
                THEN resp'.wire[n] = <<>>
                ELSE resp'.wire[n] = up.header[n] ]_vars

\* C24 with the forwarding headers set apart: no hop-by-hop header is among
\* the outbound request's headers; every other inbound header is copied with
\* all its values, except X-Forwarded-Host, which is set to the inbound
\* Host, and X-Forwarded-For, which becomes its first inbound value followed
\* by ", " and the client address (the client address alone when there was
\* none; copied when the client address is empty).  No hop-by-hop header is
\* among the headers relayed to the client and every other upstream header
\* is copied.
C24_HeaderHygiene ==
    /\ [](\A i \in 1..Len(outReq) : \A n \in HeaderNames :
            LET in  == request.header[n]
                out == outReq[i].header[n]
            IN  IF n \in {"Connection", "Proxy-Connection", "Keep-Alive",
                          "Proxy-Authenticate", "Proxy-Authorization", "Te",
                          "Trailer", "Transfer-Encoding", "Upgrade"}
                THEN out = <<>>
                ELSE IF n = "X-Forwarded-Host" THEN out = << request.host >>
                ELSE IF n = "X-Forwarded-For" /\ request.remote # <<>>
                THEN out = IF in = <<>> THEN << request.remote >>
                           ELSE << in[1] \o <<", ">> \o request.remote >>
                ELSE in # <<>> => out = in)
    /\ [][(hpc = "sent" /\ hpc' = "stream") =>
            \E up \in UpstreamResponses : \A n \in HeaderNames :
                IF n \in {"Connection", "Proxy-Connection", "Keep-Alive",
                          "Proxy-Authenticate", "Proxy-Authorization", "Te",
                          "Trailer", "Transfer-Encoding", "Upgrade"}
                THEN resp'.wire[n] = <<>>
                ELSE resp'.wire[n] = up.header[n] ]_vars

\* a request carrying every hop-by-hop header was forwarded, and a response
\* carrying every hop-by-hop header was relayed
C24_Witness ==
    /\ hpc = "done"
    /\ Len(outReq) = 1
    /\ \A n \in HopSet : request.header[n] # <<>>
    /\ outReq[1].header["Accept"] = << <<"x">> >>
    /\ resp.wire["Server"] = << <<"y">> >>
    /\ resp.wire["Upgrade"] = <<>>

\* C28: for every inbound request, when the handler has returned it has
\* called WriteHeader exactly once and written exactly one body; on the
\* passthrough path nothing is written after the upstream status except the
\* upstream body.
C28_SingleResponse ==
    /\ [](hpc = "done" => Len(resp.wh) = 1 /\ Len(resp.body) = 1)
    /\ [][(hpc = "stream" /\ hpc' = "done") =>
            /\ resp'.wh = resp.wh
            /\ \A i \in 1..Len(resp'.body) :
                   resp'.body[i] \in {<<"upstream body">>, <<"upstream body, cut">>}
          ]_vars

\* C27: for a pool of N >= 1 targets the k-th call of Pool.Next (k from 0,
\* counted across all callers, k = epoch * 2^64 + the cursor value handed
\* out) returns targets[k mod N]; no two callers observe the same cursor
\* value; and for every cursor value the index lies in 0..N-1.
C27_RoundRobin ==
    /\ \A c \in Callers :
          picked[c].done =>
            /\ ~picked[c].panic
            /\ picked[c].idx \in 0..(poolLen - 1)
            /\ picked[c].idx =
                  (observed[c].epoch * TwoTo64Mod(poolLen)
                     + Mod64(observed[c].v, poolLen)) % poolLen
    /\ \A c, d \in Callers :
          (c # d /\ observed[c].seen /\ observed[d].seen)
             => observed[c].v # observed[d].v


\* C26: misconfiguration hazard.  With the stale-after threshold at or above
\* the cache TTL, and the store evicting an entry exactly TTL after it was
\* stored, no read observes an entry as stale and no background refresh is
\* launched; the configuration is taken as it is and never changed.
C26_MisconfiguredNeverStale ==
    /\ [](cfg.BackgroundRefreshAfter >= cfg.CacheTTL =>
            /\ \A w \in Workers : hit[w] # "stale"
            /\ \A r \in Refreshers : pc[r] = "free"
            /\ \A w \in Workers, req \in Lookups : ~ENABLED GetStale(w, req))
    /\ [][cfg' = cfg]_vars

\* under a misconfigured member an entry was read as fresh, and a later read
\* of the same key found it gone
C26_Witness ==
    /\ cfg.BackgroundRefreshAfter >= cfg.CacheTTL
    /\ \E w1, w2 \in Workers :
        /\ hit[w1] = "fresh" /\ hit[w2] = "miss" /\ key[w1] = key[w2]
        /\ now - entry[w1].StoredAt >= cfg.CacheTTL

\* C25: liveness of lookups.  With every store call and fetch returning and
\* fair scheduling, every readThroughCache call of a search and every nested
\* avatar lookup returns (every runner that arrived ends), every waiter of a
\* search call or of a nested avatar call is handed the single result of
\* that call, and no deadlock arises from a search fetch that looks up
\* avatars through the same registry while it holds its own flight: a
\* waiting runner waits for a leader, a leader waits at most for the leader
\* of an avatar call, who waits for nobody, and while a runner is under way
\* some step is possible.
C25_Liveness ==
    /\ <>[](\A p \in Runners : run[p].pc \in {"idle", "done"})
    /\ \A p \in Runners :
          (run[p].pc \in {"wait", "await"}) ~> (run[p].pc \in {"woken", "awoken"})
    /\ [](\A p \in Runners :
            /\ run[p].pc = "wait" =>
                  /\ run[p].lead \in Runners \ {p}
                  /\ run[run[p].lead].pc \in {"fetch", "loop", "afetch", "await", "awoken", "set"}
            /\ run[p].pc = "await" =>
                  /\ run[p].lead \in Runners \ {p}
                  /\ run[run[p].lead].pc = "afetch")
    /\ []((\E p \in Runners : run[p].pc \notin {"idle", "done"}) => ENABLED FanProgress)
    /\ [][\A p \in Runners :
            /\ run[p].pc = "wait" /\ run'[p].pc # "wait" =>
                  /\ run'[p].pc = "woken"
                  /\ run'[run[p].lead].pc = "ret"
                  /\ run'[p].got = run'[run[p].lead].got
            /\ run[p].pc = "await" /\ run'[p].pc # "await" =>
                  /\ run'[p].pc = "awoken"
                  /\ run'[run[p].lead].looks[Len(run[run[p].lead].looks) + 1]
                        = (lookupAvatarURL(run'[p].got).err # "")
                  /\ run'[run[p].lead].final[Len(run[run[p].lead].final) + 1].AvatarURL
                        = lookupAvatarURL(run'[p].got).url]_vars

\* a runner that leads a search call waits, inside it, for the avatar call
\* that another runner leads from inside its own search call
C25_Witness ==
    \E p \in Runners :
        /\ run[p].pc = "await"
        /\ run[run[p].lead].pc = "afetch"
        /\ flights[run[p].fkey] = p
        /\ flights[run[run[p].lead].fkey] = run[p].lead

\* C23: search fan-out degradation.  In fetchSearchPayload a result whose
\* avatar lookup failed (store read error, fetch error, undecodable payload)
\* has the empty avatarUrl, every other result has the URL of its own
\* lookup, and a round of the loop leaves the earlier results alone; once
\* the search API has answered, the search call ends without error, its
\* payload is the list of all results, it is handed to the store (and is the
\* stored entry unless that write fails), and the request is answered 200
\* with it.
C23_FanoutDegradation ==
    /\ [](\A p \in Runners :
            /\ Len(run[p].final) = Len(run[p].looks)
            /\ Len(run[p].final) <= Len(run[p].contents)
            /\ \A i \in 1..Len(run[p].final) :
                  /\ run[p].final[i].PlayerID = Sprintf(run[p].contents[i])
                  /\ run[p].final[i].Name = Username(run[p].contents[i])
                  /\ run[p].looks[i] => run[p].final[i].AvatarURL = <<>>
                  /\ ~run[p].looks[i] =>
                        run[p].final[i].AvatarURL = ImageURL(run[p].contents[i])
            /\ run[p].fetched =>
                  /\ run[p].pc \in {"loop", "afetch", "await", "awoken", "set", "ret"}
                  /\ run[p].pc = "ret" =>
                        /\ run[p].got = [err |-> "", payload |-> SearchPayload(run[p].final)]
                        /\ Len(run[p].final) = Len(run[p].contents)
                        /\ run[p].status = 200
                        /\ ~run[p].bg => run[p].body = SearchPayload(run[p].final))
    /\ [][\A p \in Runners :
            /\ run[p].fetched /\ run'[p].pc # "done" =>
                  /\ run'[p].fetched
                  /\ SubSeq(run'[p].final, 1, Len(run[p].final)) = run[p].final
            /\ run[p].pc = "set" /\ run'[p].pc = "ret" =>
                  \/ fstore' = fstore
                  \/ fstore' = [fstore EXCEPT ![searchCacheKey(ToLower(run[p].needle))] =
                                   [ok |-> TRUE, Payload |-> SearchPayload(run[p].final)]]
            /\ run[p].pc = "woken" /\ run'[p].pc = "ret" /\ run[p].got.err = ""
                  /\ ~run[p].bg =>
                  run'[p].status = 200 /\ run'[p].body = run[p].got.payload]_vars

\* a search request is answered 200 with a list in which one result has
\* lost its avatar and another has its own, and that list is in the store
C23_Witness ==
    \E p \in Runners :
        /\ run[p].pc = "ret" /\ ~run[p].bg /\ run[p].fetched
        /\ run[p].status = 200
        /\ \E i, j \in 1..Len(run[p].body.final) :
              /\ run[p].looks[i]
              /\ run[p].body.final[i].AvatarURL = <<>>
              /\ run[p].body.final[j].AvatarURL = ImageURL(run[p].contents[j])
        /\ fstore[searchCacheKey(ToLower(run[p].needle))].Payload = run[p].body

====
